---- MODULE Spec2Model ----
(***************************************************************************)
(* The plugin runtime of crush: the Registry (internal/plugin/registry.go),*)
(* the Loader (internal/plugin/loader.go) and the hook contract            *)
(* (plugin.go).  Plugins are loaded by LoadFromConfig and by direct calls  *)
(* of LoadPlugin; triggers snapshot a hook pipeline and walk it.  The App  *)
(* (internal/app/app.go) loads the plugins in New, forwards session and    *)
(* message events to the triggers from two goroutines, and shuts the       *)
(* registry down in Shutdown.                                              *)
(***************************************************************************)
EXTENDS Integers, Sequences, FiniteSets, TLC

(* ------------------------------ bounds -------------------------------- *)
\* the number of SKILL.md files put below the skill directories
MaxSkillFiles == 2
MaxEvents == 2
OutputCap == 1
\* longest list of configured plugin paths
MaxPaths == 2
\* number of direct LoadPlugin calls made beside LoadFromConfig
MaxApiLoads == 1
\* number of UnloadPlugin and Registry.Shutdown calls made after the start
MaxOps == 2

(* ----------------------------- the contract --------------------------- *)
Nil == "nil"

\* the six hook groups of the Hooks interface
Kinds == {"config", "session", "message", "perm", "tool", "agent"}

\* plugin instances (values implementing Plugin); P4 reports the name of P1,
\* P5 is a SimplePlugin and reports the name of P2
Instances == {"P1", "P2", "P3", "P4", "P5"}

\* Plugin.Info().Name
Info(p) ==
  CASE p \in {"P2", "P5"} -> "b"
    [] p = "P3"           -> "c"
    [] OTHER              -> "a"

Names == {Info(p) : p \in Instances}

\* NewBaseHooks: every group is the contract's no-op hook (a non-nil value)
NewBaseHooks == [k \in Kinds |-> "noop"]

\* Plugin.Hooks(): per group "impl" (the plugin's own hook), "noop" (the
\* contract's Nil*Hook value) or Nil (a nil interface value).
\*   P1: its own hook in every group
\*   P2: NewBaseHooks with the permission and tool hooks overridden
\*   P3: its own Hooks type: session, permission and tool hooks, nil otherwise
\*   P4: its own hook in every group but the config group, which is nil
\*   P5: NewSimplePlugin, whose hooks are NewBaseHooks
Hooks(p) ==
  CASE p = "P1" -> [k \in Kinds |-> "impl"]
    [] p = "P2" -> [NewBaseHooks EXCEPT !["perm"] = "impl", !["tool"] = "impl"]
    [] p = "P3" -> [k \in Kinds |->
                      IF k \in {"session", "perm", "tool"} THEN "impl" ELSE Nil]
    [] p = "P5" -> NewBaseHooks
    [] OTHER    -> [k \in Kinds |-> IF k = "config" THEN Nil ELSE "impl"]

\* a pipeline entry: the hook value of plugin p for one group
HookRef(p, k) == [plugin |-> p, hook |-> Hooks(p)[k]]

(* ------------------------------ the loader ---------------------------- *)
\* configured paths; "missing" does not exist
Paths == {"p1.so", "p2.so", "p3.so", "p4.so", "missing"}

\* every path a configuration may name: the shared objects of Paths, a
\* directory holding shared objects, a directory without one, a directory that
\* cannot be read, a file that is no shared object, and shared objects that
\* fail to open, export no Plugin symbol, or export one of another type
LoaderPaths == Paths \cup {"simple.so", "plugins", "empty", "locked",
                           "p1.txt", "bad.so", "nosym.so", "other.so"}

\* os.Stat: the kind of file at the path, Nil when there is none
Stat(path) ==
  CASE path \in {"plugins", "empty", "locked"} -> "dir"
    [] path = "missing"                        -> Nil
    [] OTHER                                   -> "file"

\* strings.HasSuffix(name, ".so")
HasSuffixSo(name) ==
  name \in {"p1.so", "p2.so", "p3.so", "p4.so", "simple.so", "bad.so",
            "nosym.so", "other.so"}

\* os.ReadDir: the entries of a directory in directory order, each with the
\* path filepath.Join gives it; Nil when the directory cannot be read
ReadDir(dir) ==
  CASE dir = "plugins" -> << [path |-> "sub",    isDir |-> TRUE],
                             [path |-> "p1.txt", isDir |-> FALSE],
                             [path |-> "p3.so",  isDir |-> FALSE],
                             [path |-> "p2.so",  isDir |-> FALSE] >>
    [] dir = "empty"   -> << [path |-> "sub",    isDir |-> TRUE],
                             [path |-> "p1.txt", isDir |-> FALSE] >>
    [] OTHER           -> Nil

\* findPluginInDir: the first entry that is no directory and ends in .so
findPluginInDir(dir) ==
  LET entries == ReadDir(dir) IN
    IF entries = Nil
      THEN [err |-> "failed to read plugin directory", path |-> Nil]
      ELSE LET so == {i \in DOMAIN entries :
                        ~entries[i].isDir /\ HasSuffixSo(entries[i].path)}
           IN IF so = {}
                THEN [err |-> "no .so file found in directory", path |-> Nil]
                ELSE [err |-> Nil,
                      path |-> entries[CHOOSE i \in so :
                                         \A j \in so : i <= j].path]

\* plugin.Open and p.Lookup("Plugin"): the exported symbol of a shared object,
\* an instance of Instances when it implements the Plugin interface
Symbol(path) ==
  CASE path = "p1.so"    -> "P1"
    [] path = "p2.so"    -> "P2"
    [] path = "p3.so"    -> "P3"
    [] path = "p4.so"    -> "P4"
    [] path = "simple.so" -> "P5"
    [] path = "other.so" -> "other"
    [] OTHER             -> Nil

\* loadGoPlugin up to its call of LoadPlugin
loadGoPlugin(path) ==
  IF path = "bad.so"
    THEN [err |-> "failed to open plugin", plugin |-> Nil]
  ELSE IF Symbol(path) = Nil
    THEN [err |-> "plugin does not export 'Plugin' symbol", plugin |-> Nil]
  ELSE IF Symbol(path) \notin Instances
    THEN [err |-> "Plugin symbol does not implement plugin.Plugin interface",
          plugin |-> Nil]
  ELSE [err |-> Nil, plugin |-> Symbol(path)]

\* LoadFromPath up to the call of LoadPlugin: the plugin instance behind the
\* exported symbol, or the error returned
LoadFromPath(path) ==
  IF Stat(path) = Nil
    THEN [err |-> "plugin path does not exist", plugin |-> Nil]
  ELSE LET found == IF Stat(path) = "dir" THEN findPluginInDir(path)
                                          ELSE [err |-> Nil, path |-> path]
       IN IF found.err # Nil
            THEN [err |-> found.err, plugin |-> Nil]
          ELSE IF ~HasSuffixSo(found.path)
            THEN [err |-> "plugin must be a .so file", plugin |-> Nil]
          ELSE loadGoPlugin(found.path)

\* LoadFromConfig's return value: its only return statement returns nil
LoadFromConfigReturns == Nil

\* sequences over S of length at most n
SeqUpTo(S, n) == UNION {[1..m -> S] : m \in 0..n}

\* the two callers of LoadPlugin: LoadFromConfig and a direct caller
Loaders == {"cfg", "api"}

VARIABLES
  plugins,      \* Registry.plugins: name -> loaded instance, or Nil
  hooks,        \* the six pipelines: kind -> sequence of hook values
  pluginPaths,  \* cfg.GetPluginPaths()
  cfgIdx,       \* LoadFromConfig: index of the path being loaded
  cfgLoaded,    \* history: indexes of the paths LoadFromConfig loaded
  ld,           \* per caller: the LoadPlugin call in progress
  apiLoads,     \* number of direct LoadPlugin calls started
  initCalls,    \* history: number of Init calls per instance
  registered,   \* history: instances in the order registerHooks ran
  trig,         \* the trigger call in progress
  mu,           \* Registry.mu, the RWMutex guarding the six pipelines
  fwd,          \* per event forwarder: its position and its trigger call
  shutdownCalls,\* history: number of Shutdown calls per instance
  op,           \* the UnloadPlugin or Registry.Shutdown call in progress
  opCalls,      \* number of UnloadPlugin and Registry.Shutdown calls started
  app,          \* the App: position in New and Shutdown, cleanupFuncs
  reload,       \* LoadFromConfig calls made, and what the first one left
  sub,          \* per event forwarder: the channel of its subscription
  hist,         \* history: per forwarder, what it did for the events
  env,          \* the skills plugin's environment: XDG_CONFIG_HOME, home
  fs,           \* the SKILL.md files below the skill directories
  skillsPlugin, \* the skills plugin: its skills, its tools, Init's result
  subscriber,   \* a setupSubscriber goroutine: its position and its channel
  outputCh,     \* app.events, the channel the subscribers send to
  eventsCtx,    \* the context of setupEvents: "live" or "cancelled"
  nested        \* the registry call made by a running hook or Init

loadVars == <<plugins, hooks, pluginPaths, cfgIdx, cfgLoaded, ld, apiLoads,
              initCalls, registered>>

skillVars == <<env, fs, skillsPlugin>>

drainVars == <<subscriber, outputCh, eventsCtx>>

extVars == <<reload, sub, hist, skillVars, drainVars, nested>>

hostVars == <<mu, fwd, shutdownCalls, op, opCalls, app, extVars>>

vars == <<loadVars, trig, hostVars>>

\* no LoadPlugin call in progress
Idle == [pc |-> "idle", plugin |-> Nil, err |-> Nil]

\* no trigger call in progress
NoCall == [pc |-> "idle", method |-> Nil, hooks |-> <<>>, i |-> 1,
           input0 |-> Nil, input |-> Nil, args |-> Nil,
           result0 |-> Nil, result |-> Nil,
           log |-> <<>>, ret |-> Nil, err |-> FALSE]

\* the two goroutines of setupPluginEventForwarding and the trigger each calls
\* for an event of its subscription
Forwarders == {"sessions", "messages"}

FwdMethods(f) ==
  IF f = "sessions" THEN {"SessionCreated", "SessionUpdated", "SessionDeleted"}
                    ELSE {"MessageCreated", "MessageUpdated"}

\* a forwarder blocked in its select
Selecting == [NoCall EXCEPT !.pc = "select"]

\* the zero RWMutex: no writer, no writer waiting in Lock, no readers
Unlocked == [writer |-> Nil, waiting |-> {}, readers |-> {}]

\* no UnloadPlugin or Registry.Shutdown call in progress
NoOpCall == [pc |-> "idle", kind |-> Nil, name |-> Nil, plugin |-> Nil,
             todo |-> {}, log |-> <<>>, err |-> Nil]

\* the App before New has run
NoApp == [pc |-> "New", services |-> FALSE, cleanupFuncs |-> <<>>,
          initErr |-> FALSE, agent |-> FALSE, cancelAll |-> FALSE, i |-> 1]

\* LoadFromConfig was called once, for application start
NoReload == [calls |-> 1, first |-> Nil]

\* a subscription that delivers any event at any time
Live == [live |-> TRUE, events |-> <<>>, next |-> 1]

\* pubsub.CreatedEvent, UpdatedEvent, DeletedEvent
EventTypes == {"Created", "Updated", "Deleted"}

\* a subscription whose channel delivers the events of list es, one after
\* the other; next is the place of the event that is received next
Recorded(es) == [live |-> FALSE, events |-> es, next |-> 1]

\* a setupSubscriber goroutine whose subscription delivers nothing
NoSubscriber == [pc |-> "select", events |-> <<>>, next |-> 1,
                 closes |-> FALSE, log |-> <<>>]

\* the three skill directories: below the XDG config directory, below the
\* home directory, below the working directory
SkillBases == {"config", "home", "project"}

\* NewPlugin of the skills plugin
NewPlugin == [pc |-> "new", skills |-> <<>>, tools |-> <<>>, err |-> Nil]

\* no hook and no Init is inside a registry call of its own
NoNested == [caller |-> Nil, call |-> Nil, pc |-> "none"]

\* NewRegistry, NewLoader, and the rest of the host before anything ran
InitState ==
  /\ plugins = [n \in Names |-> Nil]
  /\ hooks = [k \in Kinds |-> <<>>]
  /\ cfgIdx = 1
  /\ cfgLoaded = {}
  /\ ld = [t \in Loaders |-> Idle]
  /\ apiLoads = 0
  /\ initCalls = [p \in Instances |-> 0]
  /\ registered = <<>>
  /\ trig = NoCall
  /\ mu = Unlocked
  /\ fwd = [f \in Forwarders |-> Selecting]
  /\ shutdownCalls = [p \in Instances |-> 0]
  /\ op = NoOpCall
  /\ opCalls = 0
  /\ app = NoApp
  /\ reload = NoReload
  /\ nested = NoNested

\* the event subscriptions deliver any event at any time
InitLive ==
  /\ sub = [f \in Forwarders |-> Live]
  /\ hist = [f \in Forwarders |-> <<>>]

\* setupEvents has made its context, nothing was sent to app.events
InitEvents ==
  /\ subscriber = NoSubscriber
  /\ outputCh = <<>>
  /\ eventsCtx = "live"

\* the skills plugin is constructed and not loaded, no skill file exists
InitNoSkills ==
  /\ env = [xdg |-> TRUE, home |-> TRUE]
  /\ fs = [b \in SkillBases |-> [exists |-> FALSE, files |-> <<>>]]
  /\ skillsPlugin = NewPlugin

\* the configuration is any list of paths to shared objects
Init ==
  /\ InitState /\ InitLive /\ InitNoSkills /\ InitEvents
  /\ pluginPaths \in SeqUpTo(Paths, MaxPaths)

\* the configuration is any list of paths of any kind
InitLoader ==
  /\ InitState /\ InitLive /\ InitNoSkills /\ InitEvents
  /\ pluginPaths \in SeqUpTo(LoaderPaths, MaxPaths)

\* the configurations of the specifications that follow the plugins beyond
\* their loading: lists over the two plugins that have a session hook of
\* their own and provide tools
PairPaths == {"p1.so", "p3.so"}

\* those two and a SimplePlugin
SimplePaths == PairPaths \cup {"simple.so"}

InitPair == Init /\ pluginPaths \in SeqUpTo(PairPaths, MaxPaths)

InitSimple == InitLoader /\ pluginPaths \in SeqUpTo(SimplePaths, MaxPaths)

(* ------------------------------ LoadPlugin ---------------------------- *)
\* faulty variant: no duplicate check
AlreadyLoadedNever(p) == FALSE

\* the duplicate check at the head of LoadPlugin
AlreadyLoaded(p) == plugins[Info(p)] # Nil

\* LoadPlugin, first step: info := plugin.Info(); plugins.Load(info.Name)
LoadCheck(t) ==
  /\ ld[t].pc = "check"
  /\ IF AlreadyLoaded(ld[t].plugin)
       THEN ld' = [ld EXCEPT ![t].pc = "ret", ![t].err = "already loaded"]
       ELSE ld' = [ld EXCEPT ![t].pc = "init"]
  /\ UNCHANGED <<plugins, hooks, pluginPaths, cfgIdx, cfgLoaded, apiLoads,
                 initCalls, registered, trig, hostVars>>

\* faulty variant: Init's error is returned only at the end of LoadPlugin, after
\* the plugin was stored and its hooks registered
LoadInitRegistersOnError(t) ==
  /\ ld[t].pc = "init"
  /\ initCalls' = [initCalls EXCEPT ![ld[t].plugin] = @ + 1]
  /\ \E ok \in BOOLEAN :
       IF ok THEN ld' = [ld EXCEPT ![t].pc = "store"]
             ELSE ld' = [ld EXCEPT ![t].pc = "store",
                                   ![t].err = "failed to initialize"]
  /\ UNCHANGED <<plugins, hooks, pluginPaths, cfgIdx, cfgLoaded, apiLoads,
                 registered, trig, hostVars>>

\* LoadPlugin, second step: plugin.Init(ctx, pluginCtx) returns nil or an error
LoadInit(t) ==
  /\ ld[t].pc = "init"
  /\ initCalls' = [initCalls EXCEPT ![ld[t].plugin] = @ + 1]
  /\ \E ok \in BOOLEAN :
       IF ok THEN ld' = [ld EXCEPT ![t].pc = "store"]
             ELSE ld' = [ld EXCEPT ![t].pc = "ret",
                                   ![t].err = "failed to initialize"]
  /\ UNCHANGED <<plugins, hooks, pluginPaths, cfgIdx, cfgLoaded, apiLoads,
                 registered, trig, hostVars>>

\* LoadPlugin, third step: r.plugins.Store(info.Name, plugin)
LoadStore(t) ==
  /\ ld[t].pc = "store"
  /\ plugins' = [plugins EXCEPT ![Info(ld[t].plugin)] = ld[t].plugin]
  /\ ld' = [ld EXCEPT ![t].pc = "hooks"]
  /\ UNCHANGED <<hooks, pluginPaths, cfgIdx, cfgLoaded, apiLoads, initCalls,
                 registered, trig, hostVars>>

\* faulty variant: a hook group is put at the head of its pipeline
registerHooksPrepend(hs, p) ==
  [k \in Kinds |-> IF Hooks(p)[k] # Nil THEN <<HookRef(p, k)>> \o hs[k]
                                       ELSE hs[k]]

\* faulty variant: the contract's no-op hooks are left out like nil hooks
registerHooksSkipNoop(hs, p) ==
  [k \in Kinds |-> IF Hooks(p)[k] = "impl" THEN Append(hs[k], HookRef(p, k))
                                          ELSE hs[k]]

\* registerHooks: under r.mu.Lock, each non-nil hook group of the plugin is
\* appended to its pipeline
registerHooks(hs, p) ==
  [k \in Kinds |-> IF Hooks(p)[k] # Nil THEN Append(hs[k], HookRef(p, k))
                                       ELSE hs[k]]

\* LoadPlugin, last step: hooks := plugin.Hooks(); r.registerHooks(hooks);
\* return nil
LoadRegister(t) ==
  /\ ld[t].pc = "hooks"
  /\ hooks' = registerHooks(hooks, ld[t].plugin)
  /\ registered' = Append(registered, ld[t].plugin)
  /\ ld' = [ld EXCEPT ![t].pc = "ret"]
  /\ UNCHANGED <<plugins, pluginPaths, cfgIdx, cfgLoaded, apiLoads,
                 initCalls, trig, hostVars>>

(* ---------------------------- LoadFromConfig -------------------------- *)
\* one iteration of the loop over the paths, up to the call of LoadPlugin:
\* LoadFromPath fails (a warning, continue) or hands the instance to LoadPlugin
CfgLoadFromPath ==
  /\ ld["cfg"].pc = "idle"
  /\ cfgIdx <= Len(pluginPaths)
  /\ LET r == LoadFromPath(pluginPaths[cfgIdx]) IN
       IF r.err # Nil
         THEN /\ cfgIdx' = cfgIdx + 1
              /\ ld' = ld
         ELSE /\ cfgIdx' = cfgIdx
              /\ ld' = [ld EXCEPT !["cfg"] =
                          [pc |-> "check", plugin |-> r.plugin, err |-> Nil]]
  /\ UNCHANGED <<plugins, hooks, pluginPaths, cfgLoaded, apiLoads, initCalls,
                 registered, trig, hostVars>>

\* faulty variant: LoadFromConfig returns at the first path whose LoadPlugin
\* fails
CfgContinueStopsAtError ==
  /\ ld["cfg"].pc = "ret"
  /\ cfgLoaded' = IF ld["cfg"].err = Nil THEN cfgLoaded \cup {cfgIdx}
                                         ELSE cfgLoaded
  /\ cfgIdx' = IF ld["cfg"].err = Nil THEN cfgIdx + 1
                                      ELSE Len(pluginPaths) + 1
  /\ ld' = [ld EXCEPT !["cfg"] = Idle]
  /\ UNCHANGED <<plugins, hooks, pluginPaths, apiLoads, initCalls,
                 registered, trig, hostVars>>

\* LoadPlugin has returned to loadGoPlugin/LoadFromConfig: an error is warned
\* about and the loop continues with the next path
CfgContinue ==
  /\ ld["cfg"].pc = "ret"
  /\ cfgLoaded' = IF ld["cfg"].err = Nil THEN cfgLoaded \cup {cfgIdx}
                                         ELSE cfgLoaded
  /\ cfgIdx' = cfgIdx + 1
  /\ ld' = [ld EXCEPT !["cfg"] = Idle]
  /\ UNCHANGED <<plugins, hooks, pluginPaths, apiLoads, initCalls,
                 registered, trig, hostVars>>

\* LoadFromConfig has returned
CfgDone == ld["cfg"].pc = "idle" /\ cfgIdx > Len(pluginPaths)

\* the plugin infos ListPlugins returns, as a set
ListedInfos == {Info(plugins[n]) : n \in {m \in Names : plugins[m] # Nil}}

\* LoadFromConfig is called a second time with the same configuration, after
\* the first call returned; what the first call left is remembered
LoadFromConfigAgain ==
  /\ CfgDone
  /\ reload.calls = 1
  /\ reload' = [calls |-> 2,
                first |-> [list |-> ListedInfos, initCalls |-> initCalls,
                           registered |-> registered]]
  /\ cfgIdx' = 1
  /\ UNCHANGED <<plugins, hooks, pluginPaths, cfgLoaded, ld, apiLoads,
                 initCalls, registered, trig, mu, fwd, shutdownCalls, op,
                 opCalls, app, sub, hist, skillVars, nested, drainVars>>

(* ------------------------- direct LoadPlugin calls -------------------- *)
ApiLoadPlugin(p) ==
  /\ ld["api"].pc = "idle"
  /\ apiLoads < MaxApiLoads
  /\ apiLoads' = apiLoads + 1
  /\ ld' = [ld EXCEPT !["api"] = [pc |-> "check", plugin |-> p, err |-> Nil]]
  /\ UNCHANGED <<plugins, hooks, pluginPaths, cfgIdx, cfgLoaded, initCalls,
                 registered, trig, hostVars>>

ApiReturn ==
  /\ ld["api"].pc = "ret"
  /\ ld' = [ld EXCEPT !["api"] = Idle]
  /\ UNCHANGED <<plugins, hooks, pluginPaths, cfgIdx, cfgLoaded, apiLoads,
                 initCalls, registered, trig, hostVars>>


(* ------------------------------- triggers ----------------------------- *)
\* the twelve trigger methods of the Registry and the pipeline each walks
Methods == {"ConfigHooks", "SessionCreated", "SessionUpdated", "SessionDeleted",
            "MessageCreated", "MessageUpdated", "PermissionRequest",
            "ToolExecuteBefore", "ToolExecuteAfter",
            "AgentStart", "AgentStep", "AgentFinish"}

KindOf(m) ==
  CASE m = "ConfigHooks" -> "config"
    [] m \in {"SessionCreated", "SessionUpdated", "SessionDeleted"} -> "session"
    [] m \in {"MessageCreated", "MessageUpdated"} -> "message"
    [] m = "PermissionRequest" -> "perm"
    [] m \in {"ToolExecuteBefore", "ToolExecuteAfter"} -> "tool"
    [] OTHER -> "agent"

\* ToolExecuteInput.Arguments values, ToolExecuteResult values, decisions
\* the caller passes a0 and r0; hooks return a1, a2 and r1, r2
CallArgs == {"a0"}
ArgVals == {"a1", "a2"}
CallResults == {"r0"}
ResVals == {"r1", "r2"}
Allow == "allow"
Deny == "deny"

\* what one hook invocation may return: (value, error).  The contract's no-op
\* hooks return (nil, nil); a plugin's own hook returns anything of its type.
HookReturns(h, m) ==
  IF h.hook = "noop" THEN {[val |-> Nil, err |-> FALSE]}
  ELSE CASE m = "PermissionRequest" ->
              [val : {Nil, Allow, Deny}, err : {FALSE}]
                \cup {[val |-> Nil, err |-> TRUE], [val |-> Allow, err |-> TRUE]}
         [] m = "ToolExecuteBefore" ->
              [val : {Nil} \cup ArgVals, err : {FALSE}]
                \cup {[val |-> Nil, err |-> TRUE]}
         [] m = "ToolExecuteAfter" ->
              [val : {Nil} \cup ResVals, err : {FALSE}]
                \cup {[val |-> Nil, err |-> TRUE]}
         [] OTHER -> [val : {Nil}, err : BOOLEAN]

\* `return v, e` inside a trigger
Return(t, v, e) == [t EXCEPT !.pc = "done", !.ret = v, !.err = e]

\* the end of one iteration of `for _, hook := range hooks`
Continue(t) == [t EXCEPT !.i = @ + 1]

\* faulty variant: a hook's error is logged and the walk goes on
TriggerNotifyIgnoresError(t, r) == Continue(t)

\* loop body of the config, session, message and agent triggers
TriggerNotify(t, r) ==
  IF r.err THEN Return(t, Nil, TRUE) ELSE Continue(t)

\* faulty variant: the scan does not stop at the first decision
TriggerPermissionRequestNoStop(t, r) ==
  IF r.err THEN Return(t, Nil, TRUE) ELSE Continue(t)

\* faulty variant: the hook's error is dropped and its decision, if any, used
TriggerPermissionRequestSwallowsError(t, r) ==
  IF r.val # Nil THEN Return(t, r.val, FALSE) ELSE Continue(t)

\* loop body of TriggerPermissionRequest
TriggerPermissionRequest(t, r) ==
  IF r.err THEN Return(t, Nil, TRUE)
  ELSE IF r.val # Nil THEN Return(t, r.val, FALSE)
  ELSE Continue(t)

\* faulty variant: args is replaced but input.Arguments is not updated
TriggerToolExecuteBeforeStaleInput(t, r) ==
  IF r.err THEN Return(t, Nil, TRUE)
  ELSE IF r.val # Nil THEN Continue([t EXCEPT !.args = r.val])
  ELSE Continue(t)

\* loop body of TriggerToolExecuteBefore
TriggerToolExecuteBefore(t, r) ==
  IF r.err THEN Return(t, Nil, TRUE)
  ELSE IF r.val # Nil THEN Continue([t EXCEPT !.args = r.val, !.input = r.val])
  ELSE Continue(t)

\* faulty variant: a modified result is not applied
TriggerToolExecuteAfterDropsResult(t, r) ==
  IF r.err THEN Return(t, t.result, TRUE) ELSE Continue(t)

\* loop body of TriggerToolExecuteAfter
TriggerToolExecuteAfter(t, r) ==
  IF r.err THEN Return(t, t.result, TRUE)
  ELSE IF r.val # Nil THEN Continue([t EXCEPT !.result = r.val])
  ELSE Continue(t)

\* faulty variant: the tool-before loop takes a nil return for new arguments
LoopBodyTakesNil(t, r) ==
  CASE t.method = "PermissionRequest" -> TriggerPermissionRequest(t, r)
    [] t.method = "ToolExecuteBefore" ->
         IF r.err THEN Return(t, Nil, TRUE)
         ELSE Continue([t EXCEPT !.args = r.val, !.input = r.val])
    [] t.method = "ToolExecuteAfter"  -> TriggerToolExecuteAfter(t, r)
    [] OTHER                          -> TriggerNotify(t, r)

\* the loop body of the trigger method of call t
LoopBody(t, r) ==
  CASE t.method = "PermissionRequest" -> TriggerPermissionRequest(t, r)
    [] t.method = "ToolExecuteBefore" -> TriggerToolExecuteBefore(t, r)
    [] t.method = "ToolExecuteAfter"  -> TriggerToolExecuteAfter(t, r)
    [] OTHER                          -> TriggerNotify(t, r)

\* what a trigger returns when the loop ends
LoopEnd(t) ==
  CASE t.method = "ToolExecuteBefore" -> Return(t, t.args, FALSE)
    [] t.method = "ToolExecuteAfter"  -> Return(t, t.result, FALSE)
    [] OTHER                          -> Return(t, Nil, FALSE)

\* a trigger is called: under r.mu.RLock the pipeline is copied
TriggerCall(m) ==
  /\ trig.pc \in {"idle", "done"}
  /\ \E a \in CallArgs, res \in CallResults :
       trig' = [NoCall EXCEPT
                  !.pc = "walk", !.method = m, !.hooks = hooks[KindOf(m)],
                  !.input0 = IF KindOf(m) = "tool" THEN a ELSE Nil,
                  !.input = IF KindOf(m) = "tool" THEN a ELSE Nil,
                  !.args = IF m = "ToolExecuteBefore" THEN a ELSE Nil,
                  !.result0 = IF m = "ToolExecuteAfter" THEN res ELSE Nil,
                  !.result = IF m = "ToolExecuteAfter" THEN res ELSE Nil]
  /\ UNCHANGED <<loadVars, hostVars>>

\* faulty variant: the loop ranges over the registry's pipeline, not the copy
TriggerHookLive ==
  /\ trig.pc = "walk"
  /\ trig.i <= Len(hooks[KindOf(trig.method)])
  /\ LET h == hooks[KindOf(trig.method)][trig.i] IN
       \E r \in HookReturns(h, trig.method) :
         LET t == [trig EXCEPT !.log = Append(@,
                      [idx |-> trig.i, hook |-> h, args |-> trig.input,
                       result |-> trig.result, out |-> r])]
         IN trig' = CASE trig.method = "PermissionRequest" ->
                           TriggerPermissionRequest(t, r)
                      [] trig.method = "ToolExecuteBefore" ->
                           TriggerToolExecuteBefore(t, r)
                      [] trig.method = "ToolExecuteAfter" ->
                           TriggerToolExecuteAfter(t, r)
                      [] OTHER -> TriggerNotify(t, r)
  /\ UNCHANGED <<loadVars, hostVars>>

\* one iteration: the hook is invoked with the current input and result, and
\* the trigger acts on what it returns
TriggerHook ==
  /\ trig.pc = "walk"
  /\ trig.i <= Len(trig.hooks)
  /\ \E r \in HookReturns(trig.hooks[trig.i], trig.method) :
       trig' = LoopBody([trig EXCEPT !.log = Append(@,
                           [idx |-> trig.i, hook |-> trig.hooks[trig.i],
                            args |-> trig.input,
                            result |-> trig.result, out |-> r])], r)
  /\ UNCHANGED <<loadVars, hostVars>>

\* the loop has run through the snapshot
TriggerReturn ==
  /\ trig.pc = "walk"
  /\ trig.i > Len(trig.hooks)
  /\ trig' = LoopEnd(trig)
  /\ UNCHANGED <<loadVars, hostVars>>

(* -------------------------------- panics ------------------------------ *)
\* LoadPlugin, second step, when plugin.Init panics: LoadPlugin has no
\* deferred recover, the panic leaves it and no error is returned
LoadInitPanics(t) ==
  /\ ld[t].pc = "init"
  /\ initCalls' = [initCalls EXCEPT ![ld[t].plugin] = @ + 1]
  /\ ld' = [ld EXCEPT ![t].pc = "panicked"]
  /\ UNCHANGED <<plugins, hooks, pluginPaths, cfgIdx, cfgLoaded, apiLoads,
                 registered, trig, hostVars>>

\* one iteration of a trigger's loop when the hook panics: the trigger has no
\* deferred recover, the panic leaves it and no error is returned
TriggerHookPanics ==
  /\ trig.pc = "walk"
  /\ trig.i <= Len(trig.hooks)
  /\ trig.hooks[trig.i].hook # "noop"
  /\ trig' = [trig EXCEPT !.pc = "panicked"]
  /\ UNCHANGED <<loadVars, hostVars>>

(* ------------------------------ Registry.mu --------------------------- *)
\* sync.RWMutex: RLock waits while a writer holds the lock or waits in Lock;
\* Lock announces the writer, then waits until the readers have left
CanRLock(m) == m.writer = Nil /\ m.waiting = {}

RLock(m, f) == [m EXCEPT !.readers = @ \cup {f}]

\* faulty variant: the read lock is not released before the loop over the copy
RUnlockMissing(m, f) == m

RUnlock(m, f) == [m EXCEPT !.readers = @ \ {f}]

\* faulty variant: Lock does not wait for the writer that holds the lock
CanLockBesideWriter(m) == m.readers = {}

CanLock(m) == m.writer = Nil /\ m.readers = {}

Lock(m, t) == [m EXCEPT !.writer = t, !.waiting = @ \ {t}]

Unlock(m) == [m EXCEPT !.writer = Nil]

\* registerHooks, r.mu.Lock() is called: the writer is announced
RegisterHooksLockCall(t) ==
  /\ ld[t].pc = "hooks"
  /\ mu' = [mu EXCEPT !.waiting = @ \cup {t}]
  /\ ld' = [ld EXCEPT ![t].pc = "lock"]
  /\ UNCHANGED <<plugins, hooks, pluginPaths, cfgIdx, cfgLoaded, apiLoads,
                 initCalls, registered, trig, fwd, shutdownCalls, op,
                 opCalls, app, extVars>>

\* registerHooks, r.mu.Lock() returns
RegisterHooksLock(t) ==
  /\ ld[t].pc = "lock"
  /\ CanLock(mu)
  /\ mu' = Lock(mu, t)
  /\ ld' = [ld EXCEPT ![t].pc = "locked"]
  /\ UNCHANGED <<plugins, hooks, pluginPaths, cfgIdx, cfgLoaded, apiLoads,
                 initCalls, registered, trig, fwd, shutdownCalls, op,
                 opCalls, app, extVars>>

\* registerHooks, the appends and the deferred r.mu.Unlock(); LoadPlugin
\* returns nil
RegisterHooksUnlock(t) ==
  /\ ld[t].pc = "locked"
  /\ hooks' = registerHooks(hooks, ld[t].plugin)
  /\ registered' = Append(registered, ld[t].plugin)
  /\ mu' = Unlock(mu)
  /\ ld' = [ld EXCEPT ![t].pc = "ret"]
  /\ UNCHANGED <<plugins, pluginPaths, cfgIdx, cfgLoaded, apiLoads,
                 initCalls, trig, fwd, shutdownCalls, op, opCalls, app, extVars>>

\* the order in which registerHooks goes through the six groups
KindOrder == <<"config", "session", "message", "perm", "tool", "agent">>

\* the group registerHooks is at, when the LoadPlugin call is at pc
KindAt(pc) ==
  IF pc = "locked" THEN 1 ELSE CHOOSE i \in DOMAIN KindOrder : KindOrder[i] = pc

\* registerHooks group by group: under the lock, the next hook group of the
\* plugin is appended to its pipeline if it is not nil
RegisterHooksAppend(t) ==
  /\ ld[t].pc \in {"locked"} \cup {KindOrder[i] : i \in 2..Len(KindOrder)}
  /\ LET i == KindAt(ld[t].pc)
         k == KindOrder[i]
     IN /\ hooks' = [hooks EXCEPT ![k] =
                       IF Hooks(ld[t].plugin)[k] # Nil
                         THEN Append(@, HookRef(ld[t].plugin, k)) ELSE @]
        /\ ld' = [ld EXCEPT ![t].pc = IF i < Len(KindOrder)
                                        THEN KindOrder[i + 1] ELSE "unlock"]
  /\ UNCHANGED <<plugins, pluginPaths, cfgIdx, cfgLoaded, apiLoads,
                 initCalls, registered, trig, mu, fwd, shutdownCalls, op,
                 opCalls, app, extVars>>

\* registerHooks group by group: the deferred r.mu.Unlock(); LoadPlugin
\* returns nil
RegisterHooksReturn(t) ==
  /\ ld[t].pc = "unlock"
  /\ registered' = Append(registered, ld[t].plugin)
  /\ mu' = Unlock(mu)
  /\ ld' = [ld EXCEPT ![t].pc = "ret"]
  /\ UNCHANGED <<plugins, hooks, pluginPaths, cfgIdx, cfgLoaded, apiLoads,
                 initCalls, trig, fwd, shutdownCalls, op, opCalls, app,
                 extVars>>

(* ------------------------------ re-entrancy --------------------------- *)
\* the registry calls a hook or an Init makes on the registry it runs under
NestedCalls == {"LoadPlugin", "ListPlugins", "Trigger"}

\* plugin code is running in c: a hook invoked by the trigger of a forwarder,
\* or the Init called by LoadFromConfig's LoadPlugin
ExtensionRuns(c) ==
  IF c = "cfg" THEN ld["cfg"].pc = "init" ELSE fwd[c].pc = "hook"

\* the plugin code running in c is not inside a registry call
NotNested(c) == nested.caller # c

\* the plugin code running in c calls LoadPlugin for p
NestedLoadPlugin(c, p) ==
  /\ ExtensionRuns(c)
  /\ nested = NoNested
  /\ ld["api"].pc = "idle"
  /\ apiLoads < MaxApiLoads
  /\ apiLoads' = apiLoads + 1
  /\ ld' = [ld EXCEPT !["api"] = [pc |-> "check", plugin |-> p, err |-> Nil]]
  /\ nested' = [caller |-> c, call |-> "LoadPlugin", pc |-> "run"]
  /\ UNCHANGED <<plugins, hooks, pluginPaths, cfgIdx, cfgLoaded, initCalls,
                 registered, trig, mu, fwd, shutdownCalls, op, opCalls, app,
                 reload, sub, hist, skillVars, drainVars>>

\* the nested LoadPlugin has returned to the plugin code
NestedLoadReturn ==
  /\ nested.call = "LoadPlugin"
  /\ ld["api"].pc = "ret"
  /\ ld' = [ld EXCEPT !["api"] = Idle]
  /\ nested' = NoNested
  /\ UNCHANGED <<plugins, hooks, pluginPaths, cfgIdx, cfgLoaded, apiLoads,
                 initCalls, registered, trig, mu, fwd, shutdownCalls, op,
                 opCalls, app, reload, sub, hist, skillVars, drainVars>>

\* the plugin code running in c calls ListPlugins, which reads the name index
\* and takes no lock of the registry, or calls a trigger
NestedCall(c, call) ==
  /\ ExtensionRuns(c)
  /\ nested = NoNested
  /\ nested' = [caller |-> c, call |-> call,
                pc |-> IF call = "Trigger" THEN "rlock" ELSE "run"]
  /\ UNCHANGED <<loadVars, trig, mu, fwd, shutdownCalls, op, opCalls, app,
                 reload, sub, hist, skillVars, drainVars>>

\* the nested trigger, r.mu.RLock()
NestedRLock ==
  /\ nested.pc = "rlock"
  /\ CanRLock(mu)
  /\ mu' = RLock(mu, "nested")
  /\ nested' = [nested EXCEPT !.pc = "copy"]
  /\ UNCHANGED <<loadVars, trig, fwd, shutdownCalls, op, opCalls, app,
                 reload, sub, hist, skillVars, drainVars>>

\* the nested trigger, copy of the pipeline and r.mu.RUnlock(); the hooks of
\* the copy are then invoked
NestedCopy ==
  /\ nested.pc = "copy"
  /\ mu' = RUnlock(mu, "nested")
  /\ nested' = [nested EXCEPT !.pc = "run"]
  /\ UNCHANGED <<loadVars, trig, fwd, shutdownCalls, op, opCalls, app,
                 reload, sub, hist, skillVars, drainVars>>

\* ListPlugins or the nested trigger returns to the plugin code
NestedReturn ==
  /\ nested.call \in {"ListPlugins", "Trigger"}
  /\ nested.pc = "run"
  /\ nested' = NoNested
  /\ UNCHANGED <<loadVars, trig, mu, fwd, shutdownCalls, op, opCalls, app,
                 reload, sub, hist, skillVars, drainVars>>

(* --------------------------- event forwarding ------------------------- *)
\* a forwarder receives an event of a live subscription and calls the
\* trigger
FwdReceive(f, m) ==
  /\ fwd[f].pc = "select"
  /\ sub[f].live
  /\ fwd' = [fwd EXCEPT ![f] = [Selecting EXCEPT !.pc = "rlock", !.method = m]]
  /\ UNCHANGED <<loadVars, trig, mu, shutdownCalls, op, opCalls, app, extVars>>

\* the switch on event.Type of forwarder f: the trigger it calls for an event
\* of a type, Nil where the switch has no case
FwdSwitch(f, type) ==
  CASE f = "sessions" /\ type = "Created" -> "SessionCreated"
    [] f = "sessions" /\ type = "Updated" -> "SessionUpdated"
    [] f = "sessions" /\ type = "Deleted" -> "SessionDeleted"
    [] f = "messages" /\ type = "Created" -> "MessageCreated"
    [] f = "messages" /\ type = "Updated" -> "MessageUpdated"
    [] OTHER -> Nil

\* what is observed of forwarder f with a recorded subscription, after one
\* more observation: the call or the return of a trigger, the event of the
\* subscription it is for, and whether it returned an error
Observed(f, what, ev, name, err) ==
  IF sub[f].live THEN hist
  ELSE [hist EXCEPT ![f] = Append(@, [what |-> what, ev |-> ev,
                                      name |-> name, err |-> err])]

\* faulty variant: the trigger is called in a goroutine of its own, so the
\* forwarder receives while a hook of the event before is running
InSelectOrHook(f) == fwd[f].pc \in {"select", "hook"}

\* forwarder f is blocked in its select
InSelect(f) == fwd[f].pc = "select"

\* a forwarder receives the next event of a recorded subscription and calls
\* the trigger of its type; an event of a type without a case is dropped
FwdReceiveEvent(f) ==
  /\ InSelect(f)
  /\ ~sub[f].live
  /\ sub[f].next <= Len(sub[f].events)
  /\ sub' = [sub EXCEPT ![f].next = @ + 1]
  /\ \E m \in {FwdSwitch(f, sub[f].events[sub[f].next])} :
       IF m = Nil
         THEN fwd' = [fwd EXCEPT ![f] = Selecting] /\ hist' = hist
         ELSE /\ fwd' = [fwd EXCEPT ![f] = [Selecting EXCEPT !.pc = "rlock",
                                                             !.method = m]]
              /\ hist' = Observed(f, "trigger", sub[f].next, m, FALSE)
  /\ UNCHANGED <<loadVars, trig, mu, shutdownCalls, op, opCalls, app, reload,
                 skillVars, nested, drainVars>>

\* the trigger, r.mu.RLock()
FwdRLock(f) ==
  /\ fwd[f].pc = "rlock"
  /\ CanRLock(mu)
  /\ mu' = RLock(mu, f)
  /\ fwd' = [fwd EXCEPT ![f].pc = "copy"]
  /\ UNCHANGED <<loadVars, trig, shutdownCalls, op, opCalls, app, extVars>>

\* the trigger, make and copy of the pipeline, then r.mu.RUnlock()
FwdCopy(f) ==
  /\ fwd[f].pc = "copy"
  /\ mu' = RUnlock(mu, f)
  /\ fwd' = [fwd EXCEPT ![f].pc = "walk",
                        ![f].hooks = hooks[KindOf(fwd[f].method)]]
  /\ UNCHANGED <<loadVars, trig, shutdownCalls, op, opCalls, app, extVars>>

\* faulty variant: hooks are invoked one at a time across all triggers
FwdInvokeSerialized(f) ==
  /\ fwd[f].pc = "walk"
  /\ fwd[f].i <= Len(fwd[f].hooks)
  /\ \A g \in Forwarders : fwd[g].pc # "hook"
  /\ fwd' = [fwd EXCEPT ![f].pc = "hook"]
  /\ UNCHANGED <<loadVars, trig, mu, shutdownCalls, op, opCalls, app, extVars>>

\* the loop over the copy: the next hook is invoked
FwdInvoke(f) ==
  /\ fwd[f].pc = "walk"
  /\ fwd[f].i <= Len(fwd[f].hooks)
  /\ fwd' = [fwd EXCEPT ![f].pc = "hook"]
  /\ UNCHANGED <<loadVars, trig, mu, shutdownCalls, op, opCalls, app, extVars>>

\* the hook returns: on an error the trigger returns it, else the loop goes on
FwdHookReturn(f) ==
  /\ fwd[f].pc = "hook"
  /\ \E r \in HookReturns(fwd[f].hooks[fwd[f].i], fwd[f].method) :
       fwd' = [fwd EXCEPT ![f] = TriggerNotify([@ EXCEPT !.pc = "walk"], r)]
  /\ UNCHANGED <<loadVars, trig, mu, shutdownCalls, op, opCalls, app, extVars>>

\* the loop has run through the copy: the trigger returns nil
FwdLoopEnd(f) ==
  /\ fwd[f].pc = "walk"
  /\ fwd[f].i > Len(fwd[f].hooks)
  /\ fwd' = [fwd EXCEPT ![f] = LoopEnd(@)]
  /\ UNCHANGED <<loadVars, trig, mu, shutdownCalls, op, opCalls, app, extVars>>

\* faulty variant: the forwarder returns when a trigger returned an error
FwdSelectStopsAtError(f) ==
  /\ fwd[f].pc = "done"
  /\ fwd' = [fwd EXCEPT ![f] = IF fwd[f].err THEN [@ EXCEPT !.pc = "returned"]
                                             ELSE Selecting]
  /\ hist' = Observed(f, "return", sub[f].next - 1, fwd[f].method,
                      fwd[f].err)
  /\ UNCHANGED <<loadVars, trig, mu, shutdownCalls, op, opCalls, app, reload,
                 sub, skillVars, nested, drainVars>>

\* the trigger has returned: an error is logged, and the forwarder selects
\* again
FwdSelect(f) ==
  /\ fwd[f].pc = "done"
  /\ fwd' = [fwd EXCEPT ![f] = Selecting]
  /\ hist' = Observed(f, "return", sub[f].next - 1, fwd[f].method,
                      fwd[f].err)
  /\ UNCHANGED <<loadVars, trig, mu, shutdownCalls, op, opCalls, app, reload,
                 sub, skillVars, nested, drainVars>>

(* ----------------------------- setupSubscriber ------------------------ *)
\* the subscriber has one more entry in its log: what it did with event ev
Logged(sb, ev, what) == [sb EXCEPT !.log = Append(@, [ev |-> ev, what |-> what])]

\* case event, ok := <-subCh, with ok: the next event is received
SubReceive ==
  /\ subscriber.pc = "select"
  /\ subscriber.next <= Len(subscriber.events)
  /\ subscriber' = [subscriber EXCEPT !.pc = "send", !.next = @ + 1]
  /\ UNCHANGED <<loadVars, trig, mu, fwd, shutdownCalls, op, opCalls, app,
                 reload, sub, hist, skillVars, nested, outputCh, eventsCtx>>

\* case event, ok := <-subCh, without ok: the channel of the subscription is
\* closed and empty, the goroutine returns
SubClosed ==
  /\ subscriber.pc = "select"
  /\ subscriber.next > Len(subscriber.events)
  /\ subscriber.closes
  /\ subscriber' = [subscriber EXCEPT !.pc = "returned"]
  /\ UNCHANGED <<loadVars, trig, mu, fwd, shutdownCalls, op, opCalls, app,
                 reload, sub, hist, skillVars, nested, outputCh, eventsCtx>>

\* case outputCh <- msg: the channel has room for the message
SubDeliver ==
  /\ subscriber.pc = "send"
  /\ Len(outputCh) < OutputCap
  /\ outputCh' = Append(outputCh, subscriber.next - 1)
  /\ subscriber' = Logged([subscriber EXCEPT !.pc = "select"],
                          subscriber.next - 1, "delivered")
  /\ UNCHANGED <<loadVars, trig, mu, fwd, shutdownCalls, op, opCalls, app,
                 reload, sub, hist, skillVars, nested, eventsCtx>>

\* faulty variant: the inner select has no case for a timer
TimerNever(ch) == FALSE

\* case <-time.After(2 * time.Second): channel ch has had no room since the
\* goroutine came to the inner select
TimerFires(ch) == Len(ch) = OutputCap

\* the timer fires: the message is dropped with a warning
SubDrop ==
  /\ subscriber.pc = "send"
  /\ TimerFires(outputCh)
  /\ subscriber' = Logged([subscriber EXCEPT !.pc = "select"],
                          subscriber.next - 1, "dropped")
  /\ UNCHANGED <<loadVars, trig, mu, fwd, shutdownCalls, op, opCalls, app,
                 reload, sub, hist, skillVars, nested, outputCh, eventsCtx>>

\* case <-ctx.Done(), of the outer or of the inner select: the goroutine
\* returns
SubCancelled ==
  /\ subscriber.pc \in {"select", "send"}
  /\ eventsCtx = "cancelled"
  /\ subscriber' =
       IF subscriber.pc = "send"
         THEN Logged([subscriber EXCEPT !.pc = "returned"],
                     subscriber.next - 1, "cancelled")
         ELSE [subscriber EXCEPT !.pc = "returned"]
  /\ UNCHANGED <<loadVars, trig, mu, fwd, shutdownCalls, op, opCalls, app,
                 reload, sub, hist, skillVars, nested, outputCh, eventsCtx>>

\* one of the other subscribers sends a message to app.events; a message of
\* the subscriber is the number of its event, any other message is 0
OtherSend ==
  /\ eventsCtx = "live"
  /\ Len(outputCh) < OutputCap
  /\ outputCh' = Append(outputCh, 0)
  /\ UNCHANGED <<loadVars, trig, mu, fwd, shutdownCalls, op, opCalls, app,
                 reload, sub, hist, skillVars, nested, subscriber, eventsCtx>>

\* the reader of app.events receives a message
EventsReceive ==
  /\ outputCh # <<>>
  /\ outputCh' = Tail(outputCh)
  /\ UNCHANGED <<loadVars, trig, mu, fwd, shutdownCalls, op, opCalls, app,
                 reload, sub, hist, skillVars, nested, subscriber, eventsCtx>>

\* the cleanup function of setupEvents calls cancel()
CancelEvents ==
  /\ eventsCtx = "live"
  /\ eventsCtx' = "cancelled"
  /\ UNCHANGED <<loadVars, trig, mu, fwd, shutdownCalls, op, opCalls, app,
                 reload, sub, hist, skillVars, nested, subscriber, outputCh>>

(* ------------------------- the permission checkpoint ------------------ *)
\* what the host does with the result of TriggerPermissionRequest: an error
\* fails the request (a denial), Allow proceeds, Deny refuses, no decision
\* falls through to the interactive prompt
PermissionOutcome(ret, err) ==
  IF err THEN "deny"
  ELSE IF ret = Allow THEN "allow"
  ELSE IF ret = Deny THEN "deny"
  ELSE "prompt"

\* ListPlugins: the infos (names) of the registered plugins, one per entry of
\* the name index, in the index's iteration order
RECURSIVE RangeSeq(_)
RangeSeq(S) ==
  IF S = {} THEN <<>>
  ELSE LET n == CHOOSE x \in S : TRUE IN <<n>> \o RangeSeq(S \ {n})

ListPlugins ==
  LET keys == RangeSeq({n \in Names : plugins[n] # Nil})
  IN [i \in 1..Len(keys) |-> Info(plugins[keys[i]])]

\* ToolProvider.GetTools(): the tool names of the plugins that provide tools;
\* P2 does not implement ToolProvider, P1 and P3 both name a tool "t1"
GetTools(p) ==
  CASE p = "P1" -> <<"t1">>
    [] p = "P3" -> <<"t1", "t3">>
    [] p = "P4" -> <<"t4">>
    [] OTHER    -> <<>>

\* GetPluginTools: one adapter per tool of every plugin in the name index
RECURSIVE ToolsOf(_)
ToolsOf(keys) ==
  IF keys = <<>> THEN <<>>
  ELSE LET p == plugins[Head(keys)] IN
         [i \in 1..Len(GetTools(p)) |-> [plugin |-> p, tool |-> GetTools(p)[i]]]
           \o ToolsOf(Tail(keys))

GetPluginTools == ToolsOf(RangeSeq({n \in Names : plugins[n] # Nil}))

(* ----------------------- UnloadPlugin, Registry.Shutdown -------------- *)
\* UnloadPlugin(name), up to the call of the plugin's Shutdown
UnloadPlugin(name) ==
  /\ op.pc = "idle"
  /\ opCalls < MaxOps
  /\ opCalls' = opCalls + 1
  /\ op' = IF plugins[name] = Nil
             THEN [NoOpCall EXCEPT !.pc = "ret", !.kind = "Unload",
                                   !.name = name, !.err = "not loaded"]
             ELSE [NoOpCall EXCEPT !.pc = "shutdown", !.kind = "Unload",
                                   !.name = name, !.plugin = plugins[name]]
  /\ UNCHANGED <<loadVars, trig, mu, fwd, shutdownCalls, app, extVars>>

\* faulty variant: the plugin is deleted from the name index before its
\* Shutdown is called
UnloadShutdownAfterDelete ==
  /\ op.kind = "Unload" /\ op.pc = "shutdown"
  /\ shutdownCalls' = [shutdownCalls EXCEPT ![op.plugin] = @ + 1]
  /\ plugins' = [plugins EXCEPT ![op.name] = Nil]
  /\ \E ok \in BOOLEAN :
       op' = IF ok THEN [op EXCEPT !.pc = "delete"]
                   ELSE [op EXCEPT !.pc = "ret", !.err = "failed to shutdown"]
  /\ UNCHANGED <<hooks, pluginPaths, cfgIdx, cfgLoaded, ld, apiLoads,
                 initCalls, registered, trig, mu, fwd, opCalls, app, extVars>>

\* UnloadPlugin: plugin.Shutdown(ctx) returns nil or an error
UnloadShutdown ==
  /\ op.kind = "Unload" /\ op.pc = "shutdown"
  /\ shutdownCalls' = [shutdownCalls EXCEPT ![op.plugin] = @ + 1]
  /\ \E ok \in BOOLEAN :
       op' = IF ok THEN [op EXCEPT !.pc = "delete"]
                   ELSE [op EXCEPT !.pc = "ret", !.err = "failed to shutdown"]
  /\ UNCHANGED <<loadVars, trig, mu, fwd, opCalls, app, extVars>>

\* faulty variant: the entries of the unloaded plugin leave the pipelines
UnloadHooksRemoved(hs, p) ==
  [k \in Kinds |-> SelectSeq(hs[k], LAMBDA h : h.plugin # p)]

\* what UnloadPlugin does to the six pipelines: nothing
UnloadHooks(hs, p) == hs

\* UnloadPlugin: r.plugins.Delete(name); return nil
UnloadDelete ==
  /\ op.kind = "Unload" /\ op.pc = "delete"
  /\ plugins' = [plugins EXCEPT ![op.name] = Nil]
  /\ hooks' = UnloadHooks(hooks, op.plugin)
  /\ op' = [op EXCEPT !.pc = "ret"]
  /\ UNCHANGED <<pluginPaths, cfgIdx, cfgLoaded, ld, apiLoads, initCalls,
                 registered, trig, mu, fwd, shutdownCalls, opCalls, app, extVars>>

\* Registry.Shutdown is called: plugins.Range starts over the name index
ShutdownCall ==
  /\ op.pc = "idle"
  /\ opCalls < MaxOps
  /\ opCalls' = opCalls + 1
  /\ op' = [NoOpCall EXCEPT !.pc = "range", !.kind = "Shutdown",
                            !.todo = {n \in Names : plugins[n] # Nil}]
  /\ UNCHANGED <<loadVars, trig, mu, fwd, shutdownCalls, app, extVars>>

\* faulty variant: the Range stops at the first plugin whose Shutdown fails
ShutdownVisitStopsAtError(o, n, p, ok) ==
  [o EXCEPT !.log = Append(@, [plugin |-> p, ok |-> ok]),
            !.todo = IF ok THEN @ \ {n} ELSE {}]

\* the Range callback after plugin.Shutdown returned: an error is collected
\* and the Range goes on
ShutdownVisit(o, n, p, ok) ==
  [o EXCEPT !.log = Append(@, [plugin |-> p, ok |-> ok]), !.todo = @ \ {n}]

\* faulty variant: Registry.Shutdown takes the plugin out of the name index
ShutdownIndexCleared(ps, n) == [ps EXCEPT ![n] = Nil]

\* what Registry.Shutdown does to the name index entry of a plugin it has
\* shut down: nothing
ShutdownIndex(ps, n) == ps

\* Registry.Shutdown: the Range calls Shutdown of the next plugin, in the
\* map's iteration order
ShutdownRange ==
  /\ op.kind = "Shutdown" /\ op.pc = "range"
  /\ \E n \in op.todo : \E ok \in BOOLEAN :
       /\ shutdownCalls' = [shutdownCalls EXCEPT ![plugins[n]] = @ + 1]
       /\ op' = ShutdownVisit(op, n, plugins[n], ok)
       /\ plugins' = ShutdownIndex(plugins, n)
  /\ UNCHANGED <<hooks, pluginPaths, cfgIdx, cfgLoaded, ld, apiLoads,
                 initCalls, registered, trig, mu, fwd, opCalls, app, extVars>>

\* Registry.Shutdown returns: an error if any error was collected
ShutdownReturn ==
  /\ op.kind = "Shutdown" /\ op.pc = "range"
  /\ op.todo = {}
  /\ op' = [op EXCEPT !.pc = "ret",
                      !.err = IF \E i \in DOMAIN op.log : ~op.log[i].ok
                                THEN "failed to shutdown" ELSE Nil]
  /\ UNCHANGED <<loadVars, trig, mu, fwd, shutdownCalls, opCalls, app, extVars>>

\* the caller has the result of UnloadPlugin or Registry.Shutdown
OpReturn ==
  /\ op.pc = "ret"
  /\ op' = NoOpCall
  /\ UNCHANGED <<loadVars, trig, mu, fwd, shutdownCalls, opCalls, app, extVars>>

\* some UnloadPlugin or Registry.Shutdown call has returned, none is under way
AfterCall == opCalls > 0 /\ op.pc \in {"idle", "ret"}

(* ------------------------- App.New, App.Shutdown ---------------------- *)
\* New: the session, message and history services are constructed and the
\* permission service is constructed from cfg.Permissions and cfg.WorkingDir
AppNewServices ==
  /\ app.pc = "New"
  /\ app' = [app EXCEPT !.pc = "setupEvents", !.services = TRUE]
  /\ UNCHANGED <<loadVars, trig, mu, fwd, shutdownCalls, op, opCalls, extVars>>

\* New: setupEvents starts the subscribers and the forwarders and appends
\* its cleanup (cancel, Wait)
AppSetupEvents ==
  /\ app.pc = "setupEvents"
  /\ app' = [app EXCEPT !.pc = "initPlugins",
                        !.cleanupFuncs = Append(@, "events")]
  /\ UNCHANGED <<loadVars, trig, mu, fwd, shutdownCalls, op, opCalls, extVars>>

\* initPlugins is running: LoadFromConfig, then TriggerConfigHooks
InInitPlugins == app.pc = "initPlugins"

\* initPlugins: TriggerConfigHooks is called after LoadFromConfig returned
AppTriggerConfigHooks ==
  /\ InInitPlugins
  /\ CfgDone
  /\ trig.pc = "idle"
  /\ TriggerCall("ConfigHooks")

\* initPlugins returns: on a config hook's error at once, else after appending
\* the cleanup that calls Registry.Shutdown; New logs the error as a warning
\* and appends the cleanup of the database
AppInitPluginsReturn ==
  /\ InInitPlugins
  /\ trig.pc = "done"
  /\ app' = IF trig.err
              THEN [app EXCEPT !.pc = "agent", !.initErr = TRUE,
                               !.cleanupFuncs = Append(@, "db")]
              ELSE [app EXCEPT !.pc = "agent",
                               !.cleanupFuncs = @ \o <<"plugins", "db">>]
  /\ UNCHANGED <<loadVars, trig, mu, fwd, shutdownCalls, op, opCalls, extVars>>

\* New: without an agent configuration the app is returned as it is; else
\* InitCoderAgent runs and New returns the app, or nil and its error
AppNewReturn ==
  /\ app.pc = "agent"
  /\ \E configured \in BOOLEAN, ok \in BOOLEAN :
       app' = IF ~configured THEN [app EXCEPT !.pc = "running"]
              ELSE IF ok THEN [app EXCEPT !.pc = "running", !.agent = TRUE]
              ELSE [app EXCEPT !.pc = "failed"]
  /\ UNCHANGED <<loadVars, trig, mu, fwd, shutdownCalls, op, opCalls, extVars>>

\* App.Shutdown is called on the app New returned: with an agent
\* coordinator CancelAll is called, then the loop over the cleanup functions
\* begins
AppShutdown ==
  /\ app.pc = "running"
  /\ app' = [app EXCEPT !.pc = "cleanup", !.i = 1, !.cancelAll = app.agent]
  /\ UNCHANGED <<loadVars, trig, mu, fwd, shutdownCalls, op, opCalls, extVars>>

\* the cleanup function Shutdown's loop is at
AtCleanup(c) ==
  /\ app.pc = "cleanup"
  /\ app.i <= Len(app.cleanupFuncs)
  /\ app.cleanupFuncs[app.i] = c

\* Shutdown's loop runs the cleanup of the database
AppCleanup ==
  /\ AtCleanup("db")
  /\ app' = [app EXCEPT !.i = @ + 1]
  /\ UNCHANGED <<loadVars, trig, mu, fwd, shutdownCalls, op, opCalls, extVars>>

\* Shutdown's loop runs the cleanup of setupEvents: cancel() is called, then
\* serviceEventsWG.Wait()
AppCleanupEvents ==
  /\ AtCleanup("events")
  /\ eventsCtx' = "cancelled"
  /\ app' = [app EXCEPT !.pc = "wait"]
  /\ UNCHANGED <<loadVars, trig, mu, fwd, shutdownCalls, op, opCalls, reload,
                 sub, hist, skillVars, nested, subscriber, outputCh>>

\* a forwarder in its select takes case <-ctx.Done() and returns
FwdCancelled(f) ==
  /\ fwd[f].pc = "select"
  /\ eventsCtx = "cancelled"
  /\ fwd' = [fwd EXCEPT ![f].pc = "returned"]
  /\ UNCHANGED <<loadVars, trig, mu, shutdownCalls, op, opCalls, app, extVars>>

\* faulty variant: the cleanup cancels and does not wait
WaitGroupIgnored == TRUE

\* serviceEventsWG has no goroutine left: the forwarders and the subscriber
\* have returned
WaitGroupDone ==
  /\ \A f \in Forwarders : fwd[f].pc = "returned"
  /\ subscriber.pc = "returned"

\* serviceEventsWG.Wait() returns, and with it the cleanup of setupEvents
AppEventsWaited ==
  /\ app.pc = "wait"
  /\ WaitGroupDone
  /\ app' = [app EXCEPT !.pc = "cleanup", !.i = @ + 1]
  /\ UNCHANGED <<loadVars, trig, mu, fwd, shutdownCalls, op, opCalls, extVars>>

\* Shutdown's loop runs the plugins' cleanup: Registry.Shutdown is called
AppCleanupPlugins ==
  /\ AtCleanup("plugins")
  /\ ShutdownCall

\* Registry.Shutdown has returned to the cleanup; an error is logged
AppCleanupPluginsReturn ==
  /\ AtCleanup("plugins")
  /\ op.pc = "ret"
  /\ op' = NoOpCall
  /\ app' = [app EXCEPT !.i = @ + 1]
  /\ UNCHANGED <<loadVars, trig, mu, fwd, shutdownCalls, opCalls, extVars>>

\* App.Shutdown returns
AppShutdownReturn ==
  /\ app.pc = "cleanup"
  /\ app.i > Len(app.cleanupFuncs)
  /\ app' = [app EXCEPT !.pc = "stopped"]
  /\ UNCHANGED <<loadVars, trig, mu, fwd, shutdownCalls, op, opCalls, extVars>>

(* --------------------------- the skills plugin ------------------------ *)
\* strings are sequences of characters; a character is a one-letter string,
\* "eacute" stands for one letter outside ASCII
LowerCase == {"a", "b", "c", "d", "e", "f", "g", "h", "i", "j", "k", "l", "m",
              "n", "o", "p", "q", "r", "s", "t", "u", "v", "w", "x", "y", "z"}
UpperCase == {"F", "S", "K", "I", "L", "X"}
Digits == {"0", "1", "2", "3", "4", "5", "6", "7", "8", "9"}

\* strings.ToLower on one character
ToLower(c) ==
  CASE c = "F" -> "f" [] c = "S" -> "s" [] c = "K" -> "k" [] c = "I" -> "i"
    [] c = "L" -> "l" [] c = "X" -> "x" [] OTHER -> c

\* the number of bytes of a character in a Go string (UTF-8)
Utf8Len(c) == IF c = "eacute" THEN 2 ELSE 1

\* len(s) of a Go string: its number of bytes
RECURSIVE ByteLen(_)
ByteLen(s) == IF s = <<>> THEN 0 ELSE Utf8Len(Head(s)) + ByteLen(Tail(s))

\* the shortest description parseSkillMD accepts
MinDescription == 20

\* strings.LastIndex, counting from 0; -1 when part does not occur in s
LastIndex(s, part) ==
  LET at == {i \in 1..(Len(s) - Len(part) + 1) :
               SubSeq(s, i, i + Len(part) - 1) = part}
  IN IF at = {} THEN -1 ELSE (CHOOSE i \in at : \A j \in at : j <= i) - 1

\* strings.TrimPrefix, strings.TrimSuffix
TrimPrefix(s, pre) ==
  IF Len(s) >= Len(pre) /\ SubSeq(s, 1, Len(pre)) = pre
    THEN SubSeq(s, Len(pre) + 1, Len(s)) ELSE s
TrimSuffix(s, suf) ==
  IF Len(s) >= Len(suf) /\ SubSeq(s, Len(s) - Len(suf) + 1, Len(s)) = suf
    THEN SubSeq(s, 1, Len(s) - Len(suf)) ELSE s

\* filepath.Dir and filepath.Base of a cleaned path that holds a separator
Dir(path) == SubSeq(path, 1, LastIndex(path, <<"/">>))
Base(path) == SubSeq(path, LastIndex(path, <<"/">>) + 2, Len(path))

\* filepath.Join of a cleaned path and a relative path, which may be empty
Join(dir, rel) == IF rel = <<>> THEN dir ELSE dir \o <<"/">> \o rel

\* the names the model's paths are made of
SkillsDir == <<"s", "k", "i", "l", "l", "s">>
CrushDir == <<"c", "r", "u", "s", "h">>
DotCrushDir == <<".">> \o CrushDir
DotConfigDir == <<".", "c", "o", "n", "f", "i", "g">>
SkillMd == <<"S", "K", "I", "L", "L", ".", "m", "d">>
XdgConfigHome == <<"/", "x">>
HomeDir == <<"/", "h">>
WorkingDir == <<"/", "w">>

\* the directory of each of the three bases in the given environment
BasePath(b, e) ==
  CASE b = "config" ->
         Join(Join(IF e.xdg THEN XdgConfigHome ELSE Join(HomeDir, DotConfigDir),
                   CrushDir), SkillsDir)
    [] b = "home" -> Join(Join(HomeDir, DotCrushDir), SkillsDir)
    [] OTHER      -> Join(Join(WorkingDir, DotCrushDir), SkillsDir)

\* getSkillBasePaths: the bases to search, lowest priority first
getSkillBasePaths(e) ==
  (IF e.xdg \/ e.home THEN <<"config">> ELSE <<>>)
    \o (IF e.home THEN <<"home">> ELSE <<>>)
    \o <<"project">>

\* the directories below a base that may hold a SKILL.md, relative to the
\* base, in the lexical order in which filepath.WalkDir visits their files:
\* Foo, the base itself, X-y/foo, foo, skills/foo, x_y/foo
SkillDirs ==
  << <<"F", "o", "o">>,
     <<>>,
     <<"X", "-", "y", "/", "f", "o", "o">>,
     <<"f", "o", "o">>,
     SkillsDir \o <<"/", "f", "o", "o">>,
     <<"x", "_", "y", "/", "f", "o", "o">> >>

\* what a SKILL.md may be: well-formed with the name of its directory and a
\* description of twenty letters, or with one defect: its directory cannot
\* be read, the file cannot be read, it has no second ---, its frontmatter
\* is no YAML mapping, it has no name, it has the name of another directory,
\* its description has nineteen letters; "accented" has a description of ten
\* letters of two bytes each
FileKinds == {"ok", "walkerr", "unreadable", "twoparts", "badyaml", "noname",
              "mismatch", "short", "accented"}

\* the kinds of file drawn for a directory: every kind in foo below the home
\* base, well-formed files elsewhere
KindsAt(b, d) ==
  IF b = "home" /\ SkillDirs[d] = <<"f", "o", "o">> THEN FileKinds
                                                     ELSE {"ok"}

\* a SKILL.md of kind k in the directory with basename dirName
File(k, dirName) ==
  [walkErr     |-> k = "walkerr",
   readable    |-> k # "unreadable",
   parts       |-> IF k = "twoparts" THEN 2 ELSE 3,
   yaml        |-> k # "badyaml",
   name        |-> CASE k = "noname"   -> <<>>
                     [] k = "mismatch" -> <<"b", "a", "r">>
                     [] OTHER          -> dirName,
   description |-> CASE k = "short"    -> [i \in 1..(MinDescription - 1) |-> "d"]
                     [] k = "accented" -> [i \in 1..10 |-> "eacute"]
                     [] OTHER          -> [i \in 1..MinDescription |-> "d"]]

\* a file put into the file system: base, directory, kind
Placements ==
  {pl \in [base : SkillBases, dir : DOMAIN SkillDirs, kind : FileKinds] :
     pl.kind \in KindsAt(pl.base, pl.dir)}

\* the place of a file in the order of the walk over all three bases
WalkRank(pl) ==
  (CASE pl.base = "config" -> 0 [] pl.base = "home" -> 1 [] OTHER -> 2)
    * Len(SkillDirs) + pl.dir

\* the lists of at most n files at different places, in the order of the walk
FileLists(n) ==
  {ps \in SeqUpTo(Placements, n) :
     \A i, j \in DOMAIN ps : i < j => WalkRank(ps[i]) < WalkRank(ps[j])}

\* the file system with the files of ps, the bases of missing not existing
MakeFS(ps, missing) ==
  [b \in SkillBases |->
     IF b \in missing THEN [exists |-> FALSE, files |-> <<>>]
     ELSE [exists |-> TRUE,
           files |->
             [d \in DOMAIN SkillDirs |->
                IF \E i \in DOMAIN ps : ps[i].base = b /\ ps[i].dir = d
                  THEN (LET i == CHOOSE i \in DOMAIN ps :
                                    /\ ps[i].base = b /\ ps[i].dir = d
                                    /\ \A j \in DOMAIN ps :
                                         (ps[j].base = b /\ ps[j].dir = d)
                                           => j <= i
                        IN ps[i].kind)
                  ELSE Nil]]]

\* validateSkillName: ^[a-z0-9-]+$
validateSkillName(name) ==
  /\ name # <<>>
  /\ \A i \in DOMAIN name : name[i] \in LowerCase \cup Digits \cup {"-"}

\* strings.ReplaceAll(s, "/", "_") and the replacement of every character
\* outside [a-zA-Z0-9_] by "_", on one character
Underscored(c) ==
  IF c \in LowerCase \cup UpperCase \cup Digits \cup {"_"} THEN c ELSE "_"

\* the characters of s, each one replaced and in lower case
ToolChars(s) == [i \in DOMAIN s |-> ToLower(Underscored(s[i]))]

\* faulty variant: the tool name keeps the letter case of the path
generateToolNameKeepsCase(skillPath) ==
  <<"s", "k", "i", "l", "l", "s", "_">> \o
    [i \in DOMAIN skillPath |-> Underscored(skillPath[i])]

\* generateToolName: "./" in front and "/" at the end are cut off, separators
\* and every character outside [a-zA-Z0-9_] become "_", letters become lower
\* case, "skills_" is put in front
generateToolName(skillPath) ==
  <<"s", "k", "i", "l", "l", "s", "_">> \o
    ToolChars(TrimSuffix(TrimPrefix(skillPath, <<".", "/">>), <<"/">>))

\* the path of skillDir relative to the last directory named skills above
\* it, or its base name if there is none; skillsIdx is where "/skills/" is
RelPath(skillDir, skillsIdx) ==
  IF skillsIdx >= 0 THEN SubSeq(skillDir, skillsIdx + 8 + 1, Len(skillDir))
                    ELSE Base(skillDir)

\* the end of parseSkillMD: the name is compared with the name of the
\* directory and the skill is made
NewSkill(skillPath, file, skillDir) ==
  IF file.name # Base(skillDir)
    THEN [err |-> "skill name does not match directory name", skill |-> Nil]
    ELSE [err |-> Nil,
          skill |-> [Name |-> file.name, FullPath |-> skillDir,
                     ToolName |-> generateToolName(
                        RelPath(skillDir,
                                LastIndex(skillDir,
                                          <<"/">> \o SkillsDir \o <<"/">>))),
                     Description |-> file.description,
                     Path |-> skillPath]]

\* parseSkillMD: the skill of the file at skillPath, or an error
parseSkillMD(skillPath, file) ==
  LET Fail(e) == [err |-> e, skill |-> Nil]
  IN IF ~file.readable THEN Fail("failed to read skill file")
     ELSE IF file.parts < 3 THEN Fail("missing frontmatter")
     ELSE IF ~file.yaml THEN Fail("failed to parse frontmatter")
     ELSE IF file.name = <<>> THEN Fail("skill name is required")
     ELSE IF ~validateSkillName(file.name)
       THEN Fail("invalid skill name format")
     ELSE IF ByteLen(file.description) < MinDescription
       THEN Fail("skill description must be at least 20 characters")
     ELSE NewSkill(skillPath, file, Dir(skillPath))

\* faulty variant: of two skills with one tool name the earlier is kept
AddSkillKeepsFirst(acc, skill) ==
  IF skill.ToolName \in acc.seen THEN acc
  ELSE [acc EXCEPT !.seen = @ \cup {skill.ToolName},
                   !.all = Append(@, skill)]

\* the walk callback for a parsed skill: an earlier skill with the same tool
\* name is removed, the skill is appended
AddSkill(acc, skill) ==
  LET dup == {i \in DOMAIN acc.all : acc.all[i].ToolName = skill.ToolName}
      kept == IF skill.ToolName \in acc.seen /\ dup # {}
                THEN LET i == CHOOSE i \in dup : \A j \in dup : i <= j
                     IN SubSeq(acc.all, 1, i - 1)
                          \o SubSeq(acc.all, i + 1, Len(acc.all))
                ELSE acc.all
  IN [acc EXCEPT !.seen = @ \cup {skill.ToolName},
                 !.all = Append(kept, skill)]

\* faulty variant: the callback returns the parse error, which ends the walk
OnParseErrorStops(acc, e) == [acc EXCEPT !.walkErr = e]

\* the walk callback for a file that did not parse: a warning, return nil
OnParseError(acc, e) == acc

\* the walk callback for a SKILL.md, after parseSkillMD returned r
Parsed(acc, r) ==
  IF r.err # Nil THEN OnParseError(acc, r.err) ELSE AddSkill(acc, r.skill)

\* the walk callback for the SKILL.md of directory d below base b in file
\* system f
Visit(acc, b, d, f) ==
  IF f[b].files[d] = "walkerr" THEN acc
  ELSE Parsed(acc,
         parseSkillMD(Join(Join(BasePath(b, env), SkillDirs[d]), SkillMd),
                      File(f[b].files[d],
                           Base(Join(BasePath(b, env), SkillDirs[d])))))

\* filepath.WalkDir below base b from directory d on: the callback is called
\* for each SKILL.md until it returns an error
RECURSIVE WalkDir(_, _, _, _)
WalkDir(acc, b, d, f) ==
  IF d > Len(SkillDirs) \/ acc.walkErr # Nil THEN acc
  ELSE WalkDir(IF f[b].files[d] = Nil THEN acc ELSE Visit(acc, b, d, f),
               b, d + 1, f)

\* the loop of discoverSkills over the base paths: a missing base is skipped,
\* an error of the walk is warned about
RECURSIVE WalkBases(_, _, _)
WalkBases(acc, bases, f) ==
  IF bases = <<>> THEN acc
  ELSE WalkBases(IF ~f[Head(bases)].exists THEN acc
                 ELSE [WalkDir(acc, Head(bases), 1, f) EXCEPT !.walkErr = Nil],
                 Tail(bases), f)

\* discoverSkills over file system f: the skills found and the error
\* returned, which is nil
discoverSkills(basePaths, f) ==
  [skills |-> WalkBases([all |-> <<>>, seen |-> {}, walkErr |-> Nil],
                        basePaths, f).all,
   err |-> Nil]

\* Plugin.Init of the skills plugin: the skills are discovered and one tool
\* is appended per skill
SkillsInit ==
  /\ skillsPlugin.pc = "new"
  /\ \E found \in {discoverSkills(getSkillBasePaths(env), fs)} :
       skillsPlugin' =
         IF found.err # Nil
           THEN [skillsPlugin EXCEPT !.pc = "failed",
                                     !.err = "failed to discover skills"]
           ELSE [skillsPlugin EXCEPT
                   !.pc = "ready", !.skills = found.skills,
                   !.tools = @ \o [i \in DOMAIN found.skills |->
                                     found.skills[i].ToolName]]
  /\ UNCHANGED <<loadVars, trig, mu, fwd, shutdownCalls, op, opCalls, app,
                 reload, sub, hist, env, fs, drainVars, nested>>

\* the skills plugin's Shutdown, called by UnloadPlugin: it returns nil and
\* leaves the plugin's skills and tools as they are
SkillsShutdown ==
  /\ skillsPlugin.pc = "ready"
  /\ skillsPlugin' = [skillsPlugin EXCEPT !.pc = "unloaded"]
  /\ UNCHANGED <<loadVars, trig, mu, fwd, shutdownCalls, op, opCalls, app,
                 reload, sub, hist, env, fs, drainVars, nested>>

\* Init of the same instance, called by a second LoadPlugin after the unload
SkillsInitAgain ==
  /\ skillsPlugin.pc = "unloaded"
  /\ \E found \in {discoverSkills(getSkillBasePaths(env), fs)} :
       skillsPlugin' =
         IF found.err # Nil
           THEN [skillsPlugin EXCEPT !.pc = "failed",
                                     !.err = "failed to discover skills"]
           ELSE [skillsPlugin EXCEPT
                   !.pc = "reloaded", !.skills = found.skills,
                   !.tools = @ \o [i \in DOMAIN found.skills |->
                                     found.skills[i].ToolName]]
  /\ UNCHANGED <<loadVars, trig, mu, fwd, shutdownCalls, op, opCalls, app,
                 reload, sub, hist, env, fs, drainVars, nested>>

(* ------------------------------- claims -------------------------------- *)
\* the last non-nil value of a sequence, d when there is none
LastNonNil(vals, d) ==
  LET I == {j \in 1..Len(vals) : vals[j] # Nil}
  IN IF I = {} THEN d ELSE vals[CHOOSE j \in I : \A k \in I : k <= j]

\* the values the first n invoked hooks returned
OutVals(log, n) == [j \in 1..n |-> log[j].out.val]

NoHookError(log) == \A j \in 1..Len(log) : ~log[j].out.err

\* the hooks invoked so far are the first hooks of the snapshot, each once,
\* in pipeline order
InvokedInOrder(t) ==
  /\ Len(t.log) <= Len(t.hooks)
  /\ \A j \in 1..Len(t.log) : t.log[j].idx = j /\ t.log[j].hook = t.hooks[j]

\* C1: in a permission trigger whose hooks return without error, the hooks are
\* invoked once each in pipeline order up to the first one that returns a
\* decision, no hook after it is invoked, and the trigger returns that
\* decision, or nil after every hook returned nil.
C1_FirstDecisionWins ==
  (trig.method = "PermissionRequest" /\ NoHookError(trig.log)) =>
    LET L == trig.log IN
      /\ InvokedInOrder(trig)
      /\ \A j \in 1..Len(L) : j < Len(L) => L[j].out.val = Nil
      /\ trig.pc = "walk" => \A j \in 1..Len(L) : L[j].out.val = Nil
      /\ trig.pc = "done" =>
           /\ ~trig.err
           /\ IF \E j \in 1..Len(L) : L[j].out.val # Nil
                THEN trig.ret = L[Len(L)].out.val
                ELSE Len(L) = Len(trig.hooks) /\ trig.ret = Nil

\* two permission hooks, the first allows: Allow is returned and the second
\* hook was not invoked
C1_Witness ==
  /\ trig.pc = "done" /\ trig.method = "PermissionRequest"
  /\ Len(trig.hooks) = 2 /\ Len(trig.log) = 1
  /\ trig.log[1].out = [val |-> Allow, err |-> FALSE]
  /\ trig.ret = Allow /\ ~trig.err

\* C2: in a tool-before trigger whose hooks return without error, hook i
\* receives the last non-nil arguments returned by the hooks before it (the
\* caller's arguments if none), and the trigger returns the last non-nil
\* arguments returned by any hook (the caller's if none).
C2_BeforeThreadsArgs ==
  (trig.method = "ToolExecuteBefore" /\ NoHookError(trig.log)) =>
    LET L == trig.log IN
      /\ InvokedInOrder(trig)
      /\ \A j \in 1..Len(L) :
           L[j].args = LastNonNil(OutVals(L, j - 1), trig.input0)
      /\ trig.pc = "done" =>
           /\ ~trig.err
           /\ Len(L) = Len(trig.hooks)
           /\ trig.ret = LastNonNil(OutVals(L, Len(L)), trig.input0)

\* X replaces the arguments, Y observes X's arguments and replaces them again
C2_Witness ==
  /\ trig.pc = "done" /\ trig.method = "ToolExecuteBefore"
  /\ Len(trig.log) = 2
  /\ trig.log[1].args = "a0" /\ trig.log[1].out.val = "a1"
  /\ trig.log[2].args = "a1" /\ trig.log[2].out.val = "a2"
  /\ trig.ret = "a2"

\* C3: in a tool-after trigger whose hooks return without error, hook i
\* receives the last non-nil result returned by the hooks before it (the
\* caller's result if none), and the trigger returns the last non-nil result
\* returned by any hook (the caller's if none).
C3_AfterThreadsResult ==
  (trig.method = "ToolExecuteAfter" /\ NoHookError(trig.log)) =>
    LET L == trig.log IN
      /\ InvokedInOrder(trig)
      /\ \A j \in 1..Len(L) :
           L[j].result = LastNonNil(OutVals(L, j - 1), trig.result0)
      /\ trig.pc = "done" =>
           /\ ~trig.err
           /\ Len(L) = Len(trig.hooks)
           /\ trig.ret = LastNonNil(OutVals(L, Len(L)), trig.result0)

\* the first hook replaces the result, the second leaves it alone
C3_Witness ==
  /\ trig.pc = "done" /\ trig.method = "ToolExecuteAfter"
  /\ Len(trig.log) = 2
  /\ trig.log[1].result = "r0" /\ trig.log[1].out.val = "r1"
  /\ trig.log[2].result = "r1" /\ trig.log[2].out.val = Nil
  /\ trig.ret = "r1"

\* C4: in every trigger, a hook that returns an error is the last hook
\* invoked by that call: the trigger has returned an error, the hooks before
\* it were invoked once each in order, and no later hook is invoked.  A
\* trigger returns an error only for a hook's error.
C4_ErrorStopsWalk ==
  LET L == trig.log IN
    /\ \A j \in 1..Len(L) :
         L[j].out.err => /\ j = Len(L)
                         /\ trig.pc = "done" /\ trig.err
                         /\ InvokedInOrder(trig)
    /\ (trig.pc = "done" /\ trig.err) => (Len(L) > 0 /\ L[Len(L)].out.err)

\* a session-created trigger over two hooks whose first hook fails
C4_Witness ==
  /\ trig.pc = "done" /\ trig.method = "SessionCreated"
  /\ Len(trig.hooks) = 2 /\ Len(trig.log) = 1
  /\ trig.log[1].out.err /\ trig.err

C6_AfterErrorReturnsOriginal ==
  (trig.method = "ToolExecuteAfter" /\ trig.pc = "done" /\ trig.err) =>
    trig.ret = trig.result0

\* C7: LoadPlugin of a plugin whose name is already in the name index
\* returns an error without calling Init and leaves the index and the six
\* pipelines as they were; ListPlugins holds the info of every registered
\* plugin exactly once.
C7_DuplicateRejected ==
  /\ [](\A n \in Names : plugins[n] # Nil =>
          Cardinality({i \in DOMAIN ListPlugins :
                         ListPlugins[i] = Info(plugins[n])}) = 1)
  /\ [][\A t \in Loaders :
          (/\ ld[t].pc = "check"
           /\ plugins[Info(ld[t].plugin)] # Nil
           /\ ld'[t] # ld[t]) =>
            /\ ld'[t].pc = "ret" /\ ld'[t].err = "already loaded"
            /\ initCalls' = initCalls
            /\ plugins' = plugins
            /\ hooks' = hooks
            /\ registered' = registered]_vars

\* the configuration lists p1.so twice: the second load is rejected, Init ran
\* once and the registry holds one plugin
C7_Witness ==
  /\ pluginPaths = <<"p1.so", "p1.so">> /\ cfgIdx = 2 /\ apiLoads = 0
  /\ ld["cfg"] = [pc |-> "ret", plugin |-> "P1", err |-> "already loaded"]
  /\ initCalls["P1"] = 1
  /\ Len(ListPlugins) = 1
  /\ Len(hooks["perm"]) = 1

\* the number of entries of pipeline k that belong to plugins named n
EntriesOf(k, n) ==
  Cardinality({i \in DOMAIN hooks[k] : Info(hooks[k][i].plugin) = n})

\* C8: of two concurrent LoadPlugin calls for plugins with the same name at
\* most one succeeds, and every pipeline gains the hooks of at most one.
C8_OneWinner ==
  (/\ ld["cfg"].pc = "ret" /\ ld["api"].pc = "ret"
   /\ Info(ld["cfg"].plugin) = Info(ld["api"].plugin)) =>
    /\ ~(ld["cfg"].err = Nil /\ ld["api"].err = Nil)
    /\ \A k \in Kinds : EntriesOf(k, Info(ld["cfg"].plugin)) <= 1

\* the plugins LoadFromConfig loaded, in the order of their paths
CfgLoadedSeq ==
  LET idxs == SelectSeq([i \in 1..Len(pluginPaths) |-> i],
                        LAMBDA i : i \in cfgLoaded)
  IN [j \in 1..Len(idxs) |-> LoadFromPath(pluginPaths[idxs[j]]).plugin]

\* their hooks of kind k, in that order
PathOrder(k) ==
  LET ps == SelectSeq(CfgLoadedSeq, LAMBDA p : Hooks(p)[k] # Nil)
  IN [j \in 1..Len(ps) |-> HookRef(ps[j], k)]

\* s is an initial part of u
IsPrefix(s, u) == Len(s) <= Len(u) /\ \A j \in 1..Len(s) : s[j] = u[j]

\* C9: after LoadFromConfig every pipeline holds the hooks of the plugins
\* that loaded, in the order of their configured paths; a trigger invokes
\* hooks in the order of its snapshot, which is an initial part of the
\* pipeline.
C9_PipelineFollowsPaths ==
  /\ CfgDone => \A k \in Kinds : hooks[k] = PathOrder(k)
  /\ trig.pc # "idle" =>
       /\ IsPrefix(trig.hooks, hooks[KindOf(trig.method)])
       /\ InvokedInOrder(trig)

\* p2.so then p1.so, both loaded: P2's hooks precede P1's in the pipeline
\* and in a trigger's invocations
C9_Witness ==
  /\ CfgDone
  /\ pluginPaths = <<"p2.so", "p1.so">> /\ cfgLoaded = {1, 2}
  /\ hooks["perm"] = <<HookRef("P2", "perm"), HookRef("P1", "perm")>>
  /\ trig.pc = "done" /\ trig.method = "ToolExecuteBefore"
  /\ Len(trig.log) = 2
  /\ trig.log[1].hook.plugin = "P2" /\ trig.log[2].hook.plugin = "P1"

\* no LoadPlugin call is under way
NoLoadInProgress == \A t \in Loaders : ld[t].pc \in {"idle", "ret"}

\* C10 as claimed: while no load is under way, the length of every pipeline
\* is the number of registered plugins whose hook of that kind is not the
\* contract's no-op hook.
C10_LengthCountsNonNoop ==
  NoLoadInProgress =>
    \A k \in Kinds :
      Len(hooks[k]) = Cardinality({n \in Names :
                         plugins[n] # Nil /\ Hooks(plugins[n])[k] = "impl"})

\* C10: the length of every pipeline is the number of registerHooks calls
\* made for plugins whose hook of that kind is non-nil; the contract's no-op
\* hooks are non-nil and count.
C10_LengthCountsRegistrations ==
  \A k \in Kinds :
    Len(hooks[k]) = Cardinality({i \in DOMAIN registered :
                                   Hooks(registered[i])[k] # Nil})

\* P2, built on NewBaseHooks, is loaded: its no-op config hook is an entry
C10_Witness ==
  /\ NoLoadInProgress
  /\ plugins["b"] = "P2" /\ registered = <<"P2">>
  /\ hooks["config"] = <<[plugin |-> "P2", hook |-> "noop"]>>

\* LoadPlugin got past Init for instance p: its hooks are registered or the
\* call is between Init and registerHooks
InitSucceeded(p) ==
  \/ \E i \in DOMAIN registered : registered[i] = p
  \/ \E t \in Loaders : ld[t].plugin = p /\ ld[t].pc \in {"store", "hooks"}

\* instance p has an entry in some pipeline, or in the snapshot or the
\* invocations of the trigger call
HasHooks(p) ==
  \/ \E k \in Kinds : \E i \in DOMAIN hooks[k] : hooks[k][i].plugin = p
  \/ \E i \in DOMAIN trig.hooks : trig.hooks[i].plugin = p
  \/ \E i \in DOMAIN trig.log : trig.log[i].hook.plugin = p

\* C11: a LoadPlugin call whose Init fails returns the error and leaves the
\* name index and the six pipelines as they were; a plugin whose Init calls
\* all failed is not in the index, has no entry in any pipeline and is
\* invoked by no trigger; LoadFromConfig goes on to the next path, so in the
\* end every path was attempted.
C11_InitErrorNotRegistered ==
  /\ [](\A t \in Loaders :
          (ld[t].pc = "ret" /\ ld[t].err = "failed to initialize") =>
            /\ plugins[Info(ld[t].plugin)] # ld[t].plugin
            /\ ~HasHooks(ld[t].plugin))
  /\ [](\A p \in Instances :
          (initCalls[p] > 0 /\ ~InitSucceeded(p)) =>
            /\ plugins[Info(p)] # p
            /\ ~HasHooks(p))
  /\ [](CfgDone =>
          \A i \in DOMAIN pluginPaths :
            LET r == LoadFromPath(pluginPaths[i]) IN
              r.err = Nil =>
                \/ i \in cfgLoaded
                \/ initCalls[r.plugin] > 0
                \/ plugins[Info(r.plugin)] # Nil)
  /\ [][\A t \in Loaders :
          (ld[t].pc = "init" /\ ld'[t].err = "failed to initialize") =>
            /\ ld'[t].pc = "ret"
            /\ plugins' = plugins
            /\ hooks' = hooks
            /\ registered' = registered]_vars
  /\ [][(ld["cfg"].pc = "ret" /\ ld'["cfg"] # ld["cfg"]) =>
          (cfgIdx' = cfgIdx + 1 /\ ld'["cfg"] = Idle)]_vars

\* p1.so then p2.so: P1's Init failed, P2 was loaded after it, and a
\* permission trigger invoked P2's hook alone
C11_Witness ==
  /\ CfgDone
  /\ pluginPaths = <<"p1.so", "p2.so">>
  /\ initCalls["P1"] = 1 /\ cfgLoaded = {2}
  /\ plugins["a"] = Nil /\ plugins["b"] = "P2"
  /\ Len(ListPlugins) = 1
  /\ trig.pc = "done" /\ trig.method = "PermissionRequest"
  /\ trig.hooks = <<HookRef("P2", "perm")>>
  /\ Len(trig.log) = 1

\* C12: the snapshot of a trigger call is the pipeline at the moment of the
\* call and does not change during the call; every hook the call invokes is
\* the entry of the snapshot at its position, so a hook registered after the
\* snapshot is not invoked by that call.
C12_SnapshotOnly ==
  /\ [](trig.pc # "idle" =>
          /\ InvokedInOrder(trig)
          /\ \A j \in DOMAIN trig.log :
               \E i \in DOMAIN trig.hooks : trig.hooks[i] = trig.log[j].hook)
  /\ [][(trig.pc # "walk" /\ trig'.pc = "walk") =>
          trig'.hooks = hooks[KindOf(trig'.method)]]_vars
  /\ [][trig.pc = "walk" => trig'.hooks = trig.hooks]_vars

\* P1 was registered when the session trigger took its snapshot; P3 was
\* registered while the call was under way and the call returned without
\* invoking P3's hook
C12_Witness ==
  /\ trig.pc = "done" /\ trig.method = "SessionCreated" /\ ~trig.err
  /\ trig.hooks = <<HookRef("P1", "session")>>
  /\ hooks["session"] = <<HookRef("P1", "session"), HookRef("P3", "session")>>
  /\ Len(trig.log) = 1 /\ trig.log[1].hook.plugin = "P1"

\* C13: a trigger whose hook is executing does not hold the registry lock,
\* and a LoadPlugin call that has reached registerHooks gets the lock and
\* returns, whether or not the hooks in progress ever return.
C13_NoLockWhileHookRuns ==
  /\ [](\A f \in Forwarders : fwd[f].pc \in {"walk", "hook"} =>
          f \notin mu.readers)
  /\ (ld["cfg"].pc \in {"hooks", "lock", "locked"}) ~> (ld["cfg"].pc = "ret")

\* P1's session hook is executing in a trigger that started when P1 alone was
\* registered; LoadPlugin of P3 has since registered its hooks and returned
C13_Witness ==
  /\ fwd["sessions"].pc = "hook"
  /\ fwd["sessions"].hooks = <<HookRef("P1", "session")>>
  /\ ld["cfg"] = [pc |-> "ret", plugin |-> "P3", err |-> Nil]
  /\ hooks["session"] = <<HookRef("P1", "session"), HookRef("P3", "session")>>
  /\ mu = Unlocked

\* C14: a message-created event received while a session hook is executing
\* in the session forwarder's trigger leads to the invocation of the first
\* hook of the message pipeline (or to a trigger over an empty pipeline),
\* whether or not the session hook ever returns; the hooks after the first
\* follow as the hooks before them return without error.
C14_MessagesIndependent ==
  (/\ fwd["sessions"].pc = "hook"
   /\ fwd["messages"].pc = "rlock"
   /\ fwd["messages"].method = "MessageCreated")
    ~> (\/ fwd["messages"].pc = "hook"
        \/ fwd["messages"].pc = "walk" /\ fwd["messages"].hooks = <<>>)

\* P3's session hook and P1's message hook are executing at the same time
C14_Witness ==
  /\ fwd["sessions"].pc = "hook"
  /\ fwd["sessions"].hooks[fwd["sessions"].i].plugin = "P3"
  /\ fwd["messages"].pc = "hook" /\ fwd["messages"].method = "MessageCreated"
  /\ fwd["messages"].hooks[fwd["messages"].i].plugin = "P1"

\* C15: when UnloadPlugin(name) has succeeded the plugin's Shutdown was
\* called and the name is in none of ListPlugins, GetPlugin, GetPluginTools;
\* no step of UnloadPlugin changes a pipeline, so after the start every
\* pipeline holds the hooks of all plugins that were loaded, unloaded or not,
\* in load order, and a trigger called later walks exactly that pipeline.
C15_UnloadKeepsHooks ==
  /\ []((op.kind = "Unload" /\ op.pc = "ret" /\ op.err = Nil) =>
          /\ shutdownCalls[op.plugin] >= 1
          /\ plugins[op.name] = Nil
          /\ \A i \in DOMAIN ListPlugins : ListPlugins[i] # op.name
          /\ \A i \in DOMAIN GetPluginTools :
               Info(GetPluginTools[i].plugin) # op.name)
  /\ [][(op.kind = "Unload" /\ op' # op) => hooks' = hooks]_vars
  /\ [](CfgDone => \A k \in Kinds : hooks[k] = PathOrder(k))
  /\ [][(CfgDone /\ trig.pc # "walk" /\ trig'.pc = "walk") =>
          trig'.hooks = PathOrder(KindOf(trig'.method))]_vars
  /\ [](trig.pc # "idle" => InvokedInOrder(trig))

\* P1 then P3 were loaded and P1 was unloaded by the only call made; the
\* session trigger called after that invoked P1's hook first, then P3's
C15_Witness ==
  /\ pluginPaths = <<"p1.so", "p3.so">> /\ cfgLoaded = {1, 2}
  /\ opCalls = 1 /\ op.kind = "Unload" /\ op.pc = "ret" /\ op.err = Nil
  /\ op.plugin = "P1" /\ shutdownCalls["P1"] = 1
  /\ plugins["a"] = Nil
  /\ ListPlugins = <<"c">>
  /\ Len(GetPluginTools) = 2
  /\ hooks["session"] = <<HookRef("P1", "session"), HookRef("P3", "session")>>
  /\ trig.pc = "done" /\ trig.method = "SessionCreated" /\ ~trig.err
  /\ Len(trig.log) = 2
  /\ trig.log[1].hook.plugin = "P1" /\ trig.log[2].hook.plugin = "P3"

\* the instances in the name index
Loaded == {plugins[n] : n \in {m \in Names : plugins[m] # Nil}}

\* C16: a Registry.Shutdown call calls Shutdown of every plugin in the name
\* index exactly once, also after a plugin's Shutdown failed, and returns
\* an error exactly when some plugin's Shutdown failed.
C16_ShutdownVisitsAll ==
  (op.kind = "Shutdown") =>
    LET L == op.log IN
      /\ \A i \in DOMAIN L : L[i].plugin \in Loaded
      /\ \A p \in Loaded :
           Cardinality({i \in DOMAIN L : L[i].plugin = p}) <= 1
      /\ op.pc = "ret" =>
           /\ \A p \in Loaded : \E i \in DOMAIN L : L[i].plugin = p
           /\ (op.err # Nil) <=> (\E i \in DOMAIN L : ~L[i].ok)

\* two plugins are loaded; the Shutdown of the first one visited failed, the
\* second was still shut down, and Registry.Shutdown returned an error
C16_Witness ==
  /\ op.kind = "Shutdown" /\ op.pc = "ret" /\ op.err # Nil
  /\ Cardinality(Loaded) = 2
  /\ Len(op.log) = 2
  /\ ~op.log[1].ok /\ op.log[2].ok
  /\ \A p \in Loaded : shutdownCalls[p] = 1

\* C18: over any sequence of UnloadPlugin and Registry.Shutdown calls the
\* Shutdown method of a plugin is invoked at most once.
C18_ShutdownAtMostOnce ==
  \A p \in Instances : shutdownCalls[p] <= 1

\* C17: when App.Shutdown has returned, Shutdown was called on every plugin
\* loaded at startup.
C17_ShutdownReachesAllPlugins ==
  app.pc = "stopped" => \A p \in Loaded : shutdownCalls[p] >= 1

\* C19: after a config hook returned an error, New neither initialises the
\* agent nor returns an app.
C19_ConfigHookErrorAborts ==
  (trig.method = "ConfigHooks" /\ trig.pc = "done" /\ trig.err) =>
    (~app.agent /\ app.pc \notin {"running", "cleanup", "stopped"})

\* C20: the config hooks are triggered once, after every configured path was
\* attempted, and no service is constructed or reads the configuration
\* before they have run.
C20_ConfigHooksBeforeServices ==
  /\ trig.pc # "idle" => (CfgDone /\ trig.method = "ConfigHooks")
  /\ app.pc \in {"agent", "running", "cleanup", "stopped"} =>
       (trig.pc = "done" /\ trig.method = "ConfigHooks")
  /\ app.services => (trig.pc = "done" /\ trig.method = "ConfigHooks")

\* what the loader finds behind the i-th configured path
Resolved(i) == LoadFromPath(pluginPaths[i])

\* the i-th path names a plugin whose name an earlier loaded path has taken
DuplicateAt(i) ==
  \E j \in cfgLoaded :
    j < i /\ Info(Resolved(j).plugin) = Info(Resolved(i).plugin)

\* the paths before cfgIdx that reach the Init call of instance p
InitAttempts(p) ==
  {i \in 1..(cfgIdx - 1) : Resolved(i).plugin = p /\ ~DuplicateAt(i)}

\* the step ends an attempt on a path with an error
AttemptFails ==
  \/ ld["cfg"].pc = "idle" /\ cfgIdx' = cfgIdx + 1
  \/ ld'["cfg"].err # Nil

\* C21: LoadFromConfig is tolerant. Between two paths the registry holds
\* exactly the plugins of the paths that loaded, in path order, so a path
\* that failed left nothing behind; every path before the current one that
\* names a loadable plugin had its Init called, so every path was attempted;
\* no step of a failing attempt changes the name index or a pipeline; and
\* LoadFromConfig returns no error.
C21_TolerantLoader ==
  /\ [](ld["cfg"].pc = "idle" =>
          /\ cfgLoaded \subseteq 1..(cfgIdx - 1)
          /\ \A i \in cfgLoaded : Resolved(i).err = Nil /\ ~DuplicateAt(i)
          /\ registered = CfgLoadedSeq
          /\ \A n \in Names :
               plugins[n] # Nil <=>
                 \E i \in cfgLoaded : Resolved(i).plugin = plugins[n]
          /\ \A k \in Kinds : hooks[k] = PathOrder(k)
          /\ \A p \in Instances :
               initCalls[p] = Cardinality(InitAttempts(p)))
  /\ [](CfgDone => LoadFromConfigReturns = Nil)
  /\ [][AttemptFails => UNCHANGED <<plugins, hooks, extVars>>]_vars

\* a path that fails before LoadPlugin is followed by a path that loads
C21_Witness ==
  /\ CfgDone
  /\ \E i \in 1..Len(pluginPaths) : \E j \in cfgLoaded :
       i < j /\ Resolved(i).err # Nil

\* C24: the list returned by GetPluginTools never holds two tools with the
\* same name.
C24_ToolNamesUnique ==
  \A i, j \in DOMAIN GetPluginTools :
    GetPluginTools[i].tool = GetPluginTools[j].tool => i = j

\* C22 as claimed: after the configuration was loaded, Registry.Shutdown was
\* called and the configuration was loaded again, ListPlugins returns the
\* same set of plugin infos as after the first load.
C22_ReloadSameList ==
  (reload.calls = 2 /\ CfgDone) => ListedInfos = reload.first.list

\* the Init calls of instance p during the first load all failed, and one
\* during the second load succeeded
InitRecovered(p) ==
  /\ reload.first.initCalls[p] > 0
  /\ \A i \in DOMAIN reload.first.registered : reload.first.registered[i] # p
  /\ initCalls[p] > reload.first.initCalls[p]
  /\ InitSucceeded(p)

\* C22, amended: during and after the second load ListPlugins returns every
\* info it returned after the first load, and an info beyond those belongs to
\* a plugin whose Init failed during the first load and succeeded during
\* the second; with no such plugin the two outputs are the same set.
C22_ReloadKeepsList ==
  reload.calls = 2 =>
    /\ reload.first.list \subseteq ListedInfos
    /\ \A n \in Names :
         (plugins[n] # Nil /\ Info(plugins[n]) \notin reload.first.list) =>
           InitRecovered(plugins[n])
    /\ (CfgDone /\ ~(\E p \in Instances : InitRecovered(p))) =>
         ListedInfos = reload.first.list

\* the second load has returned after a Registry.Shutdown that shut down
\* every plugin the first load had left, and the list is as it was
C22_Witness ==
  /\ reload.calls = 2 /\ CfgDone
  /\ Cardinality(reload.first.list) = 2
  /\ \A n \in Names : plugins[n] # Nil => shutdownCalls[plugins[n]] = 1
  /\ ListedInfos = reload.first.list

\* the entries of sequence q that belong to a plugin's own hook
OwnHooks(q) == SelectSeq(q, LAMBDA e : e.hook # "noop")

\* the invocations of call t that went to a plugin's own hook
OwnLog(t) == SelectSeq(t.log, LAMBDA e : e.hook.hook # "noop")

\* call t as it starts when the pipeline holds no no-op hook
WithoutNoop(t) ==
  [NoCall EXCEPT !.pc = "walk", !.method = t.method,
                 !.hooks = OwnHooks(t.hooks),
                 !.input0 = t.input0, !.input = t.input0,
                 !.args = IF t.method = "ToolExecuteBefore"
                            THEN t.input0 ELSE Nil,
                 !.result0 = t.result0, !.result = t.result0]

\* the walk of call t over its hooks, the j-th returning outs[j]
RECURSIVE Replay(_, _)
Replay(t, outs) ==
  IF t.pc = "done" \/ outs = <<>> THEN t
  ELSE Replay(LoopBody([t EXCEPT !.log = Append(@,
                          [idx |-> t.i, hook |-> t.hooks[t.i],
                           args |-> t.input, result |-> t.result,
                           out |-> Head(outs)])], Head(outs)),
              Tail(outs))

\* the same call against the registry without the no-op hooks, the plugins'
\* own hooks returning what they returned
Twin(t) ==
  LET own == OwnLog(t)
      w == Replay(WithoutNoop(t), [j \in 1..Len(own) |-> own[j].out])
  IN IF t.pc = "done" /\ w.pc = "walk" THEN LoopEnd(w) ELSE w

\* what a trigger returns to a caller whose hooks all do nothing
Untouched(t) ==
  CASE t.method = "ToolExecuteBefore" -> t.input0
    [] t.method = "ToolExecuteAfter"  -> t.result0
    [] OTHER                          -> Nil

\* C23: a trigger over a pipeline that is empty or holds only the contract's
\* no-op hooks returns no error and no decision, the caller's arguments, the
\* caller's result; and a trigger over any pipeline returns what it returns
\* without the no-op hooks, its other hooks being invoked in the same order
\* with the same arguments and result.
C23_NoopTransparent ==
  trig.pc # "idle" =>
    /\ (trig.pc = "done" /\ OwnHooks(trig.hooks) = <<>>) =>
         (~trig.err /\ trig.ret = Untouched(trig))
    /\ LET w == Twin(trig)
           own == OwnLog(trig)
       IN /\ Len(w.log) = Len(own)
          /\ \A j \in DOMAIN own :
               /\ w.log[j].hook = own[j].hook
               /\ w.log[j].args = own[j].args
               /\ w.log[j].result = own[j].result
          /\ trig.pc = "done" =>
               (w.pc = "done" /\ w.ret = trig.ret /\ w.err = trig.err)

\* a tool-before call over the hook of P1 followed by the no-op hook of a
\* SimplePlugin returns the arguments P1's hook gave
C23_Witness ==
  /\ trig.pc = "done" /\ trig.method = "ToolExecuteBefore"
  /\ trig.hooks = <<HookRef("P1", "tool"), HookRef("P5", "tool")>>
  /\ Len(trig.log) = 2
  /\ trig.log[1].out.val = "a1"
  /\ trig.ret = "a1"

\* the places of the SKILL.md files the search comes to: base and directory
Visited ==
  {v \in SkillBases \X DOMAIN SkillDirs :
     /\ \E i \in DOMAIN getSkillBasePaths(env) :
          getSkillBasePaths(env)[i] = v[1]
     /\ fs[v[1]].exists
     /\ fs[v[1]].files[v[2]] # Nil}

\* the file at a place, its path, and what parsing it gives
FileAt(v) ==
  File(fs[v[1]].files[v[2]], Base(Join(BasePath(v[1], env), SkillDirs[v[2]])))
PathAt(v) == Join(Join(BasePath(v[1], env), SkillDirs[v[2]]), SkillMd)
ParsedAt(v) == parseSkillMD(PathAt(v), FileAt(v))

\* the places that hold a valid skill file
ValidPlaces == {v \in Visited : ~FileAt(v).walkErr /\ ParsedAt(v).err = Nil}

\* the valid skill files: the place and the skill of each
ValidSkills == {[place |-> v, skill |-> ParsedAt(v).skill] : v \in ValidPlaces}

\* the priority of the bases, lowest first: XDG config, home, project-local
Priority(b) == CASE b = "config" -> 1 [] b = "home" -> 2 [] OTHER -> 3

\* the walk comes to place v before place w
WalkedBefore(v, w) ==
  \/ Priority(v[1]) < Priority(w[1])
  \/ v[1] = w[1] /\ v[2] < w[2]

\* list S holds exactly one skill per tool name of the skills V of the valid
\* files, the one the walk comes to last, and a project-local one if any
LastWins(S, V) ==
  /\ \A v \in V : \E i \in DOMAIN S : S[i].ToolName = v.skill.ToolName
  /\ \A i, j \in DOMAIN S : S[i].ToolName = S[j].ToolName => i = j
  /\ \A i \in DOMAIN S : \E v \in V :
       /\ S[i] = v.skill
       /\ \A w \in V :
            w.skill.ToolName = S[i].ToolName
              => (w = v \/ WalkedBefore(w.place, v.place))
  /\ \A i \in DOMAIN S :
       (\E w \in V :
          w.place[1] = "project" /\ w.skill.ToolName = S[i].ToolName)
         => \E v \in V : v.place[1] = "project" /\ S[i] = v.skill

\* C25: discoverSkills returns exactly one skill per tool name generated for
\* a valid skill file, namely the skill of the file with that tool name that
\* the walk over the bases (XDG config, home, project-local) comes to last;
\* so a skill of the project-local base replaces a global skill with the
\* same tool name.
C25_LastSkillWins ==
  skillsPlugin.pc = "ready" => LastWins(skillsPlugin.skills, ValidSkills)

\* the project-local foo has replaced the foo of the XDG config base
C25_Witness ==
  /\ skillsPlugin.pc = "ready"
  /\ <<"config", 4>> \in ValidPlaces /\ <<"project", 4>> \in ValidPlaces
  /\ Len(skillsPlugin.skills) = 1
  /\ skillsPlugin.skills[1].Path = PathAt(<<"project", 4>>)

\* ^skills_[a-z0-9_]+$
MatchesToolName(t) ==
  /\ Len(t) > 7
  /\ SubSeq(t, 1, 7) = <<"s", "k", "i", "l", "l", "s", "_">>
  /\ \A i \in 8..Len(t) : t[i] \in LowerCase \cup Digits \cup {"_"}

\* C26: every skill discoverSkills returns has a tool name of the form
\* skills_ followed by lower-case letters, digits and underscores, and no
\* two skills of the list have the same tool name.
C26_ToolNamesWellFormed ==
  skillsPlugin.pc = "ready" =>
    LET S == skillsPlugin.skills IN
      /\ \A i \in DOMAIN S : MatchesToolName(S[i].ToolName)
      /\ \A i, j \in DOMAIN S : S[i].ToolName = S[j].ToolName => i = j

\* X-y/foo and x_y/foo, both valid below one base, give the one tool
\* skills_x_y_foo
C26_Witness ==
  /\ skillsPlugin.pc = "ready"
  /\ \E b \in SkillBases :
       <<b, 3>> \in ValidPlaces /\ <<b, 6>> \in ValidPlaces
  /\ Len(skillsPlugin.skills) = 1
  /\ skillsPlugin.skills[1].ToolName =
       <<"s", "k", "i", "l", "l", "s", "_", "x", "_", "y", "_", "f", "o", "o">>

\* C27: every skill discoverSkills returns has a non-empty name of lower-case
\* letters, digits and hyphens that is the name of the directory of its
\* SKILL.md, and a description of at least twenty characters.
C27_SkillsValidated ==
  skillsPlugin.pc = "ready" =>
    \A i \in DOMAIN skillsPlugin.skills :
      LET sk == skillsPlugin.skills[i] IN
        /\ sk.Name # <<>>
        /\ \A j \in DOMAIN sk.Name :
             sk.Name[j] \in LowerCase \cup Digits \cup {"-"}
        /\ sk.Name = Base(Dir(sk.Path))
        /\ Len(sk.Description) >= MinDescription

\* file system f without the files that are no valid skill files
RECURSIVE OnlyFiles(_, _, _, _)
OnlyFiles(files, b, d, V) ==
  IF d > Len(files) THEN <<>>
  ELSE <<IF \E v \in V : v.place = <<b, d>> THEN files[d] ELSE Nil>>
         \o OnlyFiles(files, b, d + 1, V)

Only(f, V) ==
  [config  |-> [f["config"] EXCEPT
                  !.files = OnlyFiles(f["config"].files, "config", 1, V)],
   home    |-> [f["home"] EXCEPT
                  !.files = OnlyFiles(f["home"].files, "home", 1, V)],
   project |-> [f["project"] EXCEPT
                  !.files = OnlyFiles(f["project"].files, "project", 1, V)]]

ValidOnly(f) == Only(f, ValidSkills)

\* C28: Init of the skills plugin never fails, so discoverSkills returned no
\* error, and the skills it returned are the skills it returns when the
\* files that are unreadable or invalid do not exist.
C28_DiscoveryNeverFatal ==
  /\ skillsPlugin.pc # "failed"
  /\ skillsPlugin.pc = "ready" =>
       /\ skillsPlugin.err = Nil
       /\ skillsPlugin.skills =
            discoverSkills(getSkillBasePaths(env), ValidOnly(fs)).skills

\* the XDG config base does not exist, foo below the home base has bad
\* frontmatter, and the valid skills/foo after it is found
C28_Witness ==
  /\ skillsPlugin.pc = "ready"
  /\ ~fs["config"].exists
  /\ fs["home"].exists
  /\ fs["home"].files[4] = "badyaml" /\ fs["home"].files[5] = "ok"
  /\ Len(skillsPlugin.skills) = 1

\* the trigger that belongs to an event type of the session subscription
\* and of the message subscription
SessionTrigger(type) ==
  CASE type = "Created" -> "SessionCreated"
    [] type = "Updated" -> "SessionUpdated"
    [] type = "Deleted" -> "SessionDeleted"

MessageTrigger(type) ==
  CASE type = "Created" -> "MessageCreated"
    [] type = "Updated" -> "MessageUpdated"

\* the events of subscription f for which the forwarder is to call a trigger
ToForward(f) ==
  {k \in DOMAIN sub[f].events :
     f = "sessions" \/ sub[f].events[k] \in {"Created", "Updated"}}

\* the trigger calls observed for event k of subscription f
TriggerCalls(f, k) ==
  {i \in DOMAIN hist[f] : hist[f][i].what = "trigger" /\ hist[f][i].ev = k}

\* event k of subscription f has been received
Received(f, k) == k < sub[f].next

\* for every received event its trigger was called once, and no other
ForwardedOnce(f) ==
  \A k \in ToForward(f) :
    IF Received(f, k)
      THEN /\ Cardinality(TriggerCalls(f, k)) = 1
           /\ \A i \in TriggerCalls(f, k) :
                hist[f][i].name =
                  IF f = "sessions" THEN SessionTrigger(sub[f].events[k])
                                    ELSE MessageTrigger(sub[f].events[k])
      ELSE TriggerCalls(f, k) = {}

\* every event of subscription f has been received and its trigger has
\* returned
AllForwarded(f) ==
  /\ \A k \in DOMAIN sub[f].events : Received(f, k)
  /\ fwd[f].pc = "select"

\* C29: for every event of type Created, Updated or Deleted that the session
\* forwarder has received, and for every event of type Created or Updated
\* that the message forwarder has received, the trigger of that type was
\* called exactly once; and whatever errors the triggers return, every event
\* of the subscription is received in the end and the forwarder is back in
\* its select.
C29_EveryEventForwardedOnce ==
  /\ [](\A f \in Forwarders : ForwardedOnce(f))
  /\ \A f \in Forwarders : <>[]AllForwarded(f)

\* a trigger returned an error, it was logged, and the trigger of a later
\* event of the subscription was called
C29_Witness ==
  \E f \in Forwarders : \E i, j \in DOMAIN hist[f] :
    /\ i < j
    /\ hist[f][i].what = "return" /\ hist[f][i].err
    /\ hist[f][j].what = "trigger" /\ hist[f][j].ev > hist[f][i].ev

\* forwarder f is inside a trigger call
InTrigger(f) == fwd[f].pc \in {"rlock", "copy", "walk", "hook", "done"}

\* what was observed of forwarder f is a list of trigger calls, each one
\* followed by its return, for events in the order of the subscription
InOrder(h) ==
  /\ \A i \in DOMAIN h :
       IF i % 2 = 1
         THEN h[i].what = "trigger"
         ELSE /\ h[i].what = "return"
              /\ h[i].ev = h[i - 1].ev
              /\ h[i].name = h[i - 1].name
  /\ \A i, j \in DOMAIN h :
       i < j /\ h[i].what = "trigger" /\ h[j].what = "trigger"
         => h[i].ev < h[j].ev

\* C30: for each subscription, the trigger calls are for events in the order
\* the subscription delivered them, each trigger call has returned before
\* the next one is made, and whenever the forwarder is inside a trigger (so
\* whenever a hook is running for it), that trigger is the one of the event
\* received last and the triggers of all events before it have returned.
C30_OneEventAtATime ==
  \A f \in Forwarders :
    /\ InOrder(hist[f])
    /\ IF InTrigger(f)
         THEN /\ Len(hist[f]) % 2 = 1
              /\ hist[f][Len(hist[f])].ev = sub[f].next - 1
              /\ hist[f][Len(hist[f])].name = fwd[f].method
         ELSE Len(hist[f]) % 2 = 0

\* the second hook of the pipeline runs for the second event, after the
\* trigger of the first event returned
C30_Witness ==
  \E f \in Forwarders :
    /\ Len(hist[f]) = 3
    /\ fwd[f].pc = "hook" /\ fwd[f].i = 2
    /\ hist[f][3].ev = 2

\* the log entries of the subscriber for event k
LogOf(k) == {i \in DOMAIN subscriber.log : subscriber.log[i].ev = k}

\* every event the subscriber is done with was delivered, dropped or given
\* up on cancellation, once, and the events were handled in order
EachEventSettled ==
  /\ \A k \in 1..(subscriber.next - 1) :
       IF subscriber.pc = "send" /\ k = subscriber.next - 1
         THEN LogOf(k) = {}
         ELSE /\ Cardinality(LogOf(k)) = 1
              /\ \A i \in LogOf(k) :
                   subscriber.log[i].what \in
                     {"delivered", "dropped", "cancelled"}
  /\ \A i, j \in DOMAIN subscriber.log :
       i < j => subscriber.log[i].ev < subscriber.log[j].ev
  /\ \A i \in DOMAIN subscriber.log :
       subscriber.log[i].what = "cancelled" =>
         i = Len(subscriber.log) /\ subscriber.pc = "returned"

\* the subscriber has returned or has handled every event
SubscriberDone ==
  \/ subscriber.pc = "returned"
  \/ subscriber.pc = "select" /\ subscriber.next > Len(subscriber.events)

\* C31: the subscriber delivers each event it received, drops it or returns
\* on cancellation, never two of them and in the order of the events; it
\* never stays in the send of a message for ever, whatever the reader of
\* app.events does, and in the end it has returned or handled every event of
\* the subscription, the ones after a dropped event too.
C31_SubscriberNeverStalls ==
  /\ []EachEventSettled
  /\ [](subscriber.pc = "send" => <>(subscriber.pc # "send"))
  /\ <>[]SubscriberDone

\* an event was dropped and the event after it was delivered
C31_Witness ==
  \E i \in DOMAIN subscriber.log :
    /\ i < Len(subscriber.log)
    /\ subscriber.log[i].what = "dropped"
    /\ subscriber.log[i + 1].what = "delivered"

\* Registry.Shutdown has begun, or a plugin's Shutdown was called
PluginShutdownBegun ==
  \/ op.pc # "idle"
  \/ \E p \in Instances : shutdownCalls[p] > 0

\* C32: from the moment Registry.Shutdown is called by App.Shutdown, and so
\* whenever a plugin's Shutdown is or was called, both forwarders have
\* returned, so that no trigger of a forwarder is in progress or starts, and
\* CancelAll was called if there is an agent.
C32_PluginsShutDownAfterDrain ==
  PluginShutdownBegun =>
    /\ \A f \in Forwarders : fwd[f].pc = "returned"
    /\ app.agent => app.cancelAll

\* with an agent and both plugins loaded, Shutdown of a plugin is called
\* after the forwarders returned
C32_Witness ==
  /\ app.agent /\ app.cancelAll
  /\ plugins["a"] = "P1" /\ plugins["c"] = "P3"
  /\ shutdownCalls["P1"] = 1
  /\ \A f \in Forwarders : fwd[f].pc = "returned"

\* C33: no panic of a plugin's Init or of a hook leaves LoadPlugin or a
\* trigger: the call returns an error instead.
C33_NoPanicEscapes ==
  /\ trig.pc # "panicked"
  /\ \A t \in Loaders : ld[t].pc # "panicked"

\* an Init call of instance p has returned nil: the LoadPlugin call that made
\* it is past Init without an error, or LoadFromConfig has counted the path
\* of p as loaded
InitReturnedNil(p) ==
  \/ \E t \in Loaders :
       /\ ld[t].plugin = p
       /\ ld[t].pc \in {"store", "hooks", "lock", "locked", "ret"}
       /\ ld[t].err = Nil
  \/ \E i \in cfgLoaded : LoadFromPath(pluginPaths[i]).plugin = p

\* C34: every entry of the six pipelines, every entry of the snapshot of a
\* trigger in progress and so every hook that is invoked belongs to a plugin
\* whose Init has returned nil, at any moment of the loading and of the
\* triggers that run beside it.
C34_NoHookBeforeInit ==
  /\ \A k \in Kinds : \A i \in DOMAIN hooks[k] :
       InitReturnedNil(hooks[k][i].plugin)
  /\ \A f \in Forwarders : \A i \in DOMAIN fwd[f].hooks :
       InitReturnedNil(fwd[f].hooks[i].plugin)
  /\ \A p \in Instances :
       (initCalls[p] = 0 \/ ~InitReturnedNil(p)) =>
         \A f \in Forwarders :
           ~(fwd[f].pc = "hook" /\ fwd[f].hooks[fwd[f].i].plugin = p)

\* the session hook of P1 is executing while Init of P3 is
C34_Witness ==
  /\ fwd["sessions"].pc = "hook"
  /\ fwd["sessions"].hooks[fwd["sessions"].i].plugin = "P1"
  /\ ld["cfg"].pc = "init" /\ ld["cfg"].plugin = "P3"
  /\ initCalls["P3"] = 0

\* C35: every plugin in the name index, and so every plugin ListPlugins or
\* GetPlugin shows, has each of its hook groups in the pipeline of the group.
C35_ListedMeansRegistered ==
  \A n \in Names :
    plugins[n] # Nil =>
      \A k \in Kinds :
        Hooks(plugins[n])[k] # Nil =>
          \E i \in DOMAIN hooks[k] : hooks[k][i] = HookRef(plugins[n], k)

\* instance p has an entry in pipeline k, and the place of its first one
InPipeline(p, k) == \E i \in DOMAIN hooks[k] : hooks[k][i].plugin = p

PlaceIn(p, k) ==
  CHOOSE i \in DOMAIN hooks[k] :
    /\ hooks[k][i].plugin = p
    /\ \A j \in 1..(i - 1) : hooks[k][j].plugin # p

\* C36: two plugins that both have entries in two pipelines come in the same
\* order in both, at any moment of concurrent LoadPlugin calls.
C36_SameOrderInAllPipelines ==
  \A p, q \in Instances : \A k1, k2 \in Kinds :
    (/\ p # q
     /\ InPipeline(p, k1) /\ InPipeline(q, k1)
     /\ InPipeline(p, k2) /\ InPipeline(q, k2))
      => (PlaceIn(p, k1) < PlaceIn(q, k1)) = (PlaceIn(p, k2) < PlaceIn(q, k2))

\* P2 was registered while the LoadPlugin call for P1 waited for the lock,
\* and P1 after it
C36_Witness ==
  /\ registered = <<"P2", "P1">>
  /\ ld["cfg"].plugin = "P1" /\ ld["cfg"].pc = "ret"
  /\ \A k \in Kinds : InPipeline("P1", k) /\ InPipeline("P2", k)
  /\ PlaceIn("P2", "agent") < PlaceIn("P1", "agent")

C38_HookAtMostOnce ==
  /\ \A k \in Kinds : \A i, j \in DOMAIN hooks[k] :
       hooks[k][i] = hooks[k][j] => i = j
  /\ \A i, j \in DOMAIN trig.log :
       trig.log[i].hook = trig.log[j].hook => i = j

\* an UnloadPlugin call takes a step other than the delete of its success
UnloadStepBeforeDelete ==
  op' # op /\ op'.kind = "Unload" /\ op.pc # "delete"

\* C39: an UnloadPlugin call returns an error when the name is not loaded or
\* the plugin's Shutdown returned one; up to that return it leaves the name
\* index, GetPluginTools and the six pipelines as they were, so after a failed
\* call the plugin is loaded as before, or not loaded as before.
C39_FailedUnloadChangesNothing ==
  /\ [][UnloadStepBeforeDelete =>
          /\ plugins' = plugins
          /\ GetPluginTools' = GetPluginTools
          /\ hooks' = hooks
          /\ (op.pc = "idle" /\ plugins[op'.name] = Nil) =>
               (op'.pc = "ret" /\ op'.err = "not loaded")]_vars
  /\ [](op.kind = "Unload" /\ op.pc = "ret" =>
          /\ op.err = "not loaded" => plugins[op.name] = Nil
          /\ op.err = "failed to shutdown" =>
               (plugins[op.name] = op.plugin /\ shutdownCalls[op.plugin] >= 1)
          /\ op.err = Nil => plugins[op.name] = Nil)

\* P1 and P3 were loaded; UnloadPlugin for a name that is not loaded failed,
\* then UnloadPlugin of P3 failed in P3's Shutdown: P3 is in the name index,
\* its tools are offered and its hooks are in the pipelines
C39_Witness ==
  /\ pluginPaths = <<"p1.so", "p3.so">> /\ cfgLoaded = {1, 2}
  /\ opCalls = 2 /\ shutdownCalls = [p \in Instances |->
                                       IF p = "P3" THEN 1 ELSE 0]
  /\ op.kind = "Unload" /\ op.pc = "ret" /\ op.err = "failed to shutdown"
  /\ op.plugin = "P3" /\ plugins["c"] = "P3" /\ plugins["a"] = "P1"
  /\ Len(GetPluginTools) = 3
  /\ hooks["session"] = <<HookRef("P1", "session"), HookRef("P3", "session")>>

\* C40: after a successful Init of the skills plugin, the first or a later
\* one, GetTools holds as many tools as there are skills, under names that
\* differ.
C40_OneToolPerSkill ==
  skillsPlugin.pc \in {"ready", "unloaded", "reloaded"} =>
    /\ Len(skillsPlugin.tools) = Len(skillsPlugin.skills)
    /\ \A i, j \in DOMAIN skillsPlugin.tools :
         skillsPlugin.tools[i] = skillsPlugin.tools[j] => i = j

(* ---------------------------- specifications -------------------------- *)
\* application start (LoadFromConfig) with triggers firing at any time
NextTrigger ==
  \/ LoadCheck("cfg")
  \/ LoadInit("cfg")
  \/ LoadStore("cfg")
  \/ LoadRegister("cfg")
  \/ CfgLoadFromPath
  \/ CfgContinue
  \/ \E m \in Methods : TriggerCall(m)
  \/ TriggerHook
  \/ TriggerReturn

SpecTrigger == Init /\ [][NextTrigger]_vars

\* LoadFromConfig beside direct LoadPlugin calls
NextLoad ==
  \/ \E t \in Loaders : LoadCheck(t)
  \/ \E t \in Loaders : LoadInit(t)
  \/ \E t \in Loaders : LoadStore(t)
  \/ \E t \in Loaders : LoadRegister(t)
  \/ CfgLoadFromPath
  \/ CfgContinue
  \/ \E p \in Instances : ApiLoadPlugin(p)
  \/ ApiReturn

SpecLoad == Init /\ [][NextLoad]_vars

\* application start (LoadFromConfig) beside the two event forwarders, with
\* the steps of the registry lock
NextForward ==
  \/ LoadCheck("cfg")
  \/ LoadInit("cfg")
  \/ LoadStore("cfg")
  \/ RegisterHooksLockCall("cfg")
  \/ RegisterHooksLock("cfg")
  \/ RegisterHooksUnlock("cfg")
  \/ CfgLoadFromPath
  \/ CfgContinue
  \/ \E f \in Forwarders : \E m \in FwdMethods(f) : FwdReceive(f, m)
  \/ \E f \in Forwarders : FwdRLock(f)
  \/ \E f \in Forwarders : FwdCopy(f)
  \/ \E f \in Forwarders : FwdInvoke(f)
  \/ \E f \in Forwarders : FwdHookReturn(f)
  \/ \E f \in Forwarders : FwdLoopEnd(f)
  \/ \E f \in Forwarders : FwdSelect(f)

\* the steps of the runtime itself, per thread; a plugin's Init and its hooks
\* are foreign code that may never return, and events may never arrive
LoaderRuns ==
  \/ LoadCheck("cfg")
  \/ LoadStore("cfg")
  \/ RegisterHooksLockCall("cfg")
  \/ RegisterHooksLock("cfg")
  \/ RegisterHooksUnlock("cfg")
  \/ CfgLoadFromPath
  \/ CfgContinue

ForwarderRuns(f) ==
  FwdRLock(f) \/ FwdCopy(f) \/ FwdInvoke(f) \/ FwdLoopEnd(f) \/ FwdSelect(f)

\* the goroutines are scheduled fairly
SpecForward ==
  /\ InitPair
  /\ [][NextForward]_vars
  /\ WF_vars(LoaderRuns)
  /\ \A f \in Forwarders : WF_vars(ForwarderRuns(f))

\* after the start: UnloadPlugin calls, one at a time, and triggers called
\* after them
NextUnload ==
  \/ LoadCheck("cfg")
  \/ LoadInit("cfg")
  \/ LoadStore("cfg")
  \/ LoadRegister("cfg")
  \/ CfgLoadFromPath
  \/ CfgContinue
  \/ CfgDone /\ \E n \in Names : UnloadPlugin(n)
  \/ UnloadShutdown
  \/ UnloadDelete
  \/ OpReturn
  \/ AfterCall /\ \E m \in Methods : TriggerCall(m)
  \/ TriggerHook
  \/ TriggerReturn

SpecUnload == InitPair /\ [][NextUnload]_vars

\* after the start: UnloadPlugin and Registry.Shutdown calls, one at a time
NextShutdown ==
  \/ LoadCheck("cfg")
  \/ LoadInit("cfg")
  \/ LoadStore("cfg")
  \/ LoadRegister("cfg")
  \/ CfgLoadFromPath
  \/ CfgContinue
  \/ CfgDone /\ \E n \in Names : UnloadPlugin(n)
  \/ UnloadShutdown
  \/ UnloadDelete
  \/ CfgDone /\ ShutdownCall
  \/ ShutdownRange
  \/ ShutdownReturn
  \/ OpReturn

SpecShutdown == Init /\ [][NextShutdown]_vars

\* the life of the application: App.New, then App.Shutdown
NextApp ==
  \/ AppNewServices
  \/ AppSetupEvents
  \/ InInitPlugins /\ LoadCheck("cfg")
  \/ InInitPlugins /\ LoadInit("cfg")
  \/ InInitPlugins /\ LoadStore("cfg")
  \/ InInitPlugins /\ LoadRegister("cfg")
  \/ InInitPlugins /\ CfgLoadFromPath
  \/ InInitPlugins /\ CfgContinue
  \/ AppTriggerConfigHooks
  \/ InInitPlugins /\ TriggerHook
  \/ InInitPlugins /\ TriggerReturn
  \/ AppInitPluginsReturn
  \/ AppNewReturn
  \/ AppShutdown
  \/ AppCleanup
  \/ AppCleanupEvents
  \/ \E f \in Forwarders : FwdCancelled(f)
  \/ SubCancelled
  \/ AppEventsWaited
  \/ AppCleanupPlugins
  \/ AtCleanup("plugins") /\ ShutdownRange
  \/ AtCleanup("plugins") /\ ShutdownReturn
  \/ AppCleanupPluginsReturn
  \/ AppShutdownReturn

SpecApp == Init /\ [][NextApp]_vars

\* LoadFromConfig alone, over configurations with paths of every kind
NextLoader ==
  \/ LoadCheck("cfg")
  \/ LoadInit("cfg")
  \/ LoadStore("cfg")
  \/ LoadRegister("cfg")
  \/ CfgLoadFromPath
  \/ CfgContinue

SpecLoader == InitLoader /\ [][NextLoader]_vars

\* the configuration is loaded, the registry shut down, the configuration
\* loaded again
NextReload ==
  \/ LoadCheck("cfg")
  \/ LoadInit("cfg")
  \/ LoadStore("cfg")
  \/ LoadRegister("cfg")
  \/ CfgLoadFromPath
  \/ CfgContinue
  \/ CfgDone /\ reload.calls = 1 /\ ShutdownCall
  \/ ShutdownRange
  \/ ShutdownReturn
  \/ OpReturn
  \/ AfterCall /\ LoadFromConfigAgain

SpecReload == Init /\ [][NextReload]_vars

\* triggers beside the start of an application whose configuration names
\* plugins of its own and SimplePlugins
SpecSimple == InitSimple /\ [][NextTrigger]_vars

\* the start with recorded subscriptions: the configuration names the two
\* plugins, one of the subscriptions delivers a list of events of any types
\* and the other one nothing
InitStream ==
  /\ InitState /\ InitNoSkills /\ InitEvents
  /\ pluginPaths = <<"p1.so", "p3.so">>
  /\ \E f \in Forwarders : \E es \in SeqUpTo(EventTypes, MaxEvents) :
       sub = [g \in Forwarders |-> IF g = f THEN Recorded(es)
                                            ELSE Recorded(<<>>)]
  /\ hist = [f \in Forwarders |-> <<>>]

\* LoadFromConfig and the two forwarders, each on its recorded subscription
NextStream ==
  \/ LoadCheck("cfg")
  \/ LoadInit("cfg")
  \/ LoadStore("cfg")
  \/ RegisterHooksLockCall("cfg")
  \/ RegisterHooksLock("cfg")
  \/ RegisterHooksUnlock("cfg")
  \/ CfgLoadFromPath
  \/ CfgContinue
  \/ \E f \in Forwarders : FwdReceiveEvent(f)
  \/ \E f \in Forwarders : FwdRLock(f)
  \/ \E f \in Forwarders : FwdCopy(f)
  \/ \E f \in Forwarders : FwdInvoke(f)
  \/ \E f \in Forwarders : FwdHookReturn(f)
  \/ \E f \in Forwarders : FwdLoopEnd(f)
  \/ \E f \in Forwarders : FwdSelect(f)

\* the goroutines are scheduled fairly, a delivered event is received, and
\* every hook returns
SpecStream ==
  /\ InitStream
  /\ [][NextStream]_vars
  /\ WF_vars(LoaderRuns)
  /\ \A f \in Forwarders :
       /\ WF_vars(ForwarderRuns(f))
       /\ WF_vars(FwdReceiveEvent(f))
       /\ WF_vars(FwdHookReturn(f))

\* the skills plugin before its Init, in any environment and with any files
InitSkills ==
  /\ InitState /\ InitLive /\ InitEvents
  /\ pluginPaths = <<>>
  /\ env \in [xdg : BOOLEAN, home : BOOLEAN]
  /\ \E ps \in FileLists(MaxSkillFiles) :
       \E missing \in SUBSET (SkillBases \ {ps[i].base : i \in DOMAIN ps}) :
         fs = MakeFS(ps, missing)
  /\ skillsPlugin = NewPlugin

\* the skills plugin is loaded
NextSkills == SkillsInit

SpecSkills == InitSkills /\ [][NextSkills]_vars

\* a subscriber whose subscription delivers any list of events and may
\* close its channel after them
InitSubscriber ==
  /\ InitState /\ InitLive /\ InitNoSkills
  /\ pluginPaths = <<>>
  /\ \E es \in SeqUpTo(EventTypes, MaxEvents) : \E c \in BOOLEAN :
       subscriber = [NoSubscriber EXCEPT !.events = es, !.closes = c]
  /\ outputCh = <<>>
  /\ eventsCtx = "live"

\* the steps of the subscriber goroutine
SubscriberRuns ==
  SubReceive \/ SubClosed \/ SubDeliver \/ SubDrop \/ SubCancelled

\* the subscriber beside the other senders and the reader of app.events
NextSubscriber ==
  \/ SubscriberRuns
  \/ OtherSend
  \/ EventsReceive
  \/ CancelEvents

\* the goroutine is scheduled fairly and the timer fires; the reader need
\* not receive and the context need not be cancelled
SpecSubscriber ==
  InitSubscriber /\ [][NextSubscriber]_vars /\ WF_vars(SubscriberRuns)

\* the forwarders are started by setupEvents
ForwardersStarted == app.pc \notin {"New", "setupEvents"}

\* the application from New to the end of Shutdown, with the forwarders at
\* work from setupEvents on
NextDrain ==
  \/ NextApp
  \/ \E f \in Forwarders : \E m \in FwdMethods(f) :
       ForwardersStarted /\ FwdReceive(f, m)
  \/ \E f \in Forwarders : FwdRLock(f)
  \/ \E f \in Forwarders : FwdCopy(f)
  \/ \E f \in Forwarders : FwdInvoke(f)
  \/ \E f \in Forwarders : FwdHookReturn(f)
  \/ \E f \in Forwarders : FwdLoopEnd(f)
  \/ \E f \in Forwarders : FwdSelect(f)

SpecDrain == InitPair /\ [][NextDrain]_vars

\* application start with triggers firing at any time, and with plugins
\* whose Init or hooks may panic
NextPanic ==
  \/ NextTrigger
  \/ LoadInitPanics("cfg")
  \/ TriggerHookPanics

SpecPanic == InitPair /\ [][NextPanic]_vars

\* the plugins direct LoadPlugin calls are made for beside LoadFromConfig
\* over p1.so and p3.so: P2 and P3
ApiPlugins == {"P2", "P3"}

\* LoadFromConfig beside direct LoadPlugin calls, registerHooks step by step
NextConcurrent ==
  \/ \E t \in Loaders : LoadCheck(t)
  \/ \E t \in Loaders : LoadInit(t)
  \/ \E t \in Loaders : LoadStore(t)
  \/ \E t \in Loaders : RegisterHooksLockCall(t)
  \/ \E t \in Loaders : RegisterHooksLock(t)
  \/ \E t \in Loaders : RegisterHooksAppend(t)
  \/ \E t \in Loaders : RegisterHooksReturn(t)
  \/ CfgLoadFromPath
  \/ CfgContinue
  \/ \E p \in ApiPlugins : ApiLoadPlugin(p)
  \/ ApiReturn

SpecConcurrent == InitPair /\ [][NextConcurrent]_vars

\* the configuration names P1 and P3
InitReentrant == Init /\ pluginPaths = <<"p1.so", "p3.so">>

\* application start beside the session forwarder, where the plugin code that
\* runs (a hook, or an Init called by LoadFromConfig) calls back into the
\* registry
NextReentrant ==
  \/ \E t \in Loaders : LoadCheck(t)
  \/ NotNested("cfg") /\ LoadInit("cfg")
  \/ LoadInit("api")
  \/ \E t \in Loaders : LoadStore(t)
  \/ \E t \in Loaders : RegisterHooksLockCall(t)
  \/ \E t \in Loaders : RegisterHooksLock(t)
  \/ \E t \in Loaders : RegisterHooksUnlock(t)
  \/ CfgLoadFromPath
  \/ CfgContinue
  \/ \E m \in FwdMethods("sessions") : FwdReceive("sessions", m)
  \/ FwdRLock("sessions")
  \/ FwdCopy("sessions")
  \/ FwdInvoke("sessions")
  \/ NotNested("sessions") /\ FwdHookReturn("sessions")
  \/ FwdLoopEnd("sessions")
  \/ FwdSelect("sessions")
  \/ \E c \in {"cfg", "sessions"} : \E p \in ApiPlugins : NestedLoadPlugin(c, p)
  \/ \E c \in {"cfg", "sessions"} :
       \E call \in NestedCalls \ {"LoadPlugin"} : NestedCall(c, call)
  \/ NestedLoadReturn
  \/ NestedRLock
  \/ NestedCopy
  \/ NestedReturn

\* the steps of the registry in a nested call, the returns of the Init and the
\* hooks the nested call runs included
NestedRuns ==
  \/ LoadCheck("api") \/ LoadInit("api") \/ LoadStore("api")
  \/ RegisterHooksLockCall("api") \/ RegisterHooksLock("api")
  \/ RegisterHooksUnlock("api")
  \/ NestedLoadReturn \/ NestedRLock \/ NestedCopy \/ NestedReturn

\* the goroutines are scheduled fairly; the plugin code that made the nested
\* call may never return
SpecReentrant ==
  /\ InitReentrant
  /\ [][NextReentrant]_vars
  /\ WF_vars(LoaderRuns)
  /\ WF_vars(ForwarderRuns("sessions"))
  /\ WF_vars(NestedRuns)

\* no call on the registry is under way
Quiet == CfgDone /\ op.pc = "idle" /\ ld["api"].pc = "idle" /\ trig.pc = "idle"

\* after the start, one call at a time: UnloadPlugin, LoadPlugin for an
\* instance the configuration named, the session trigger
NextRecycle ==
  \/ \E t \in Loaders : LoadCheck(t)
  \/ \E t \in Loaders : LoadInit(t)
  \/ \E t \in Loaders : LoadStore(t)
  \/ \E t \in Loaders : LoadRegister(t)
  \/ CfgLoadFromPath
  \/ CfgContinue
  \/ Quiet /\ \E n \in Names : UnloadPlugin(n)
  \/ UnloadShutdown
  \/ UnloadDelete
  \/ OpReturn
  \/ Quiet /\ \E p \in {"P1", "P3"} : ApiLoadPlugin(p)
  \/ ApiReturn
  \/ Quiet /\ TriggerCall("SessionCreated")
  \/ TriggerHook
  \/ TriggerReturn

SpecRecycle == InitPair /\ [][NextRecycle]_vars

\* the skills plugin is loaded, unloaded and loaded again
NextSkillsAgain == SkillsInit \/ SkillsShutdown \/ SkillsInitAgain

SpecSkillsAgain == InitSkills /\ [][NextSkillsAgain]_vars

\* everything together
Next ==
  \/ NextLoad
  \/ NextTrigger
  \/ NextForward
  \/ NextUnload
  \/ NextShutdown
  \/ NextApp
  \/ NextLoader
  \/ NextReload
  \/ NextSkills
  \/ NextStream
  \/ NextSubscriber
  \/ NextDrain
  \/ NextPanic
  \/ NextConcurrent
  \/ NextReentrant
  \/ NextRecycle
  \/ NextSkillsAgain

Spec == Init /\ [][Next]_vars

====
